---- MODULE Spec2Model ----
(***************************************************************************)
(* A model of the interview answer-scoring engine of the FIA travel-check  *)
(* backend: the question bank (models/interview.types.ts), the rule-based  *)
(* scorer and session orchestrator (services/interview.service.ts) and the *)
(* Gemini gateway (services/gemini.service.ts).                            *)
(*                                                                         *)
(* Answers are TLA+ strings.  toLowerCase, trim, includes, match(/\d+/g),  *)
(* parseInt and the regular expressions of the question bank are computed  *)
(* character by character, as the JavaScript runtime computes them.        *)
(***************************************************************************)
EXTENDS Integers, Sequences, FiniteSets, TLC

VARIABLES
  \* ---- one call of InterviewService.scoreAnswer (specification SpecScore)
  sQuestion,      \* the question scored (an index into INTERVIEW_QUESTIONS)
  sAnswer,        \* the raw answer text
  sVisa,          \* the visa type
  sPrev,          \* the previous-answers map (question id -> lower-cased answer)
  sResult         \* NoResult, or what scoreAnswer returned

scoreVars == <<sQuestion, sAnswer, sVisa, sPrev, sResult>>

VARIABLES
  \* ---- InterviewService (specifications Spec and SpecRun)
  limits,         \* the workload of the run: which inputs the callers draw from
  sessions,       \* session id -> the ActiveSession object created for it
  active,         \* the keys of the activeSessions map
  pendingEnds,    \* session id -> endInterview calls suspended at await saveSession
  saveCalls,      \* session id -> inserts handed to the persistence collaborator
  endReturns,     \* session id -> endInterview calls that have returned
  response        \* what the last call returned or threw

sessionVars == <<limits, sessions, active, pendingEnds, saveCalls, endReturns, response>>

VARIABLES
  \* ---- one call of getQuestionsForVisaType (specification SpecQuestions)
  qVisa,          \* the visa type asked for
  qCount,         \* the count asked for
  qOrder,         \* the order the shuffle leaves the list in
  qResult         \* NoQuestions, or the ids of the questions returned

questionVars == <<qVisa, qCount, qOrder, qResult>>

VARIABLES
  \* ---- GeminiService (specifications SpecGemini and FairGemini)
  genAI,               \* this.genAI is non-null
  model,               \* the model name of the this.model object, "null" if null
  modelName,           \* this.modelName
  verified,            \* this.verified
  rateLimited,         \* this.rateLimited
  rateLimitResetTime,  \* this.rateLimitResetTime, in seconds
  now,                 \* Date.now(), in seconds
  verifying,           \* verifyWithFallbacks: 0 when not running, else the
                       \* 1-based position of the candidate being tested
  call,                \* the evaluateAnswer / generateFinalAssessment call in flight
  returned             \* what the last completed call returned or threw

serviceVars == <<genAI, model, modelName, verified, rateLimited, rateLimitResetTime>>

geminiVars == <<serviceVars, now, verifying, call, returned>>

VARIABLES
  \* ---- the WhatsApp webhook, one user (specification SpecWhatsApp)
  wCountry,       \* session.country, "null" if null
  wArrays,        \* the array objects session.documents has referred to
  wCurrent,       \* which of them session.documents refers to now
  wMedia,         \* image/document message -> how far its handler has come
  wRuns,          \* 'done' message -> how far its handler has come
  wProcessed      \* the documents processDocuments has iterated over

whatsappVars == <<wCountry, wArrays, wCurrent, wMedia, wRuns, wProcessed>>

vars == <<scoreVars, questionVars, sessionVars, geminiVars, whatsappVars>>

(***************************************************************************)
(* Bounds of the model.                                                    *)
(***************************************************************************)
\* an answer of the scorer's input set is made of at most this many phrases
MaxPhrases == 2
\* a session of the single-session workload receives at most this many weak
\* (one-letter) answers
MaxWeak == 1
\* the shuffle of startInterview picks among this many orders
MaxShuffles == 2
\* at most this many endInterview calls of one session are in flight at once
MaxPendingEnds == 2
\* answers each session of the two-session workload accepts
ConcSubmits == 1

(***************************************************************************)
(* JavaScript string primitives.                                           *)
(***************************************************************************)
Range(s) == { s[i] : i \in DOMAIN s }

Max(a, b) == IF a >= b THEN a ELSE b
Min(a, b) == IF a <= b THEN a ELSE b

UpperAlphabet == "ABCDEFGHIJKLMNOPQRSTUVWXYZ"
LowerAlphabet == "abcdefghijklmnopqrstuvwxyz"
Digits == "0123456789"

\* the 1-based position of the one-character string c in alphabet, 0 if absent
IndexIn(c, alphabet) ==
  IF \E i \in 1..Len(alphabet) : SubSeq(alphabet, i, i) = c
  THEN CHOOSE i \in 1..Len(alphabet) : SubSeq(alphabet, i, i) = c
  ELSE 0

CharAt(s, i) == SubSeq(s, i, i)

CharsOf(alphabet) == { CharAt(alphabet, i) : i \in 1..Len(alphabet) }

UpperChars == CharsOf(UpperAlphabet)
LowerChars == CharsOf(LowerAlphabet)
DigitChars == CharsOf(Digits)

\* the lower-case letter of each upper-case letter
LowerOf == [c \in UpperChars |-> CharAt(LowerAlphabet, IndexIn(c, UpperAlphabet))]

\* the value of each decimal digit
DigitValue == [c \in DigitChars |-> IndexIn(c, Digits) - 1]

IsDigit(c) == c \in DigitChars
IsLetter(c) == c \in LowerChars \/ c \in UpperChars
IsSpace(c) == c = " "

\* String.prototype.toLowerCase
RECURSIVE LowerFrom(_)
LowerFrom(s) ==
  IF s = "" THEN ""
  ELSE LET c == Head(s)
       IN (IF c \in UpperChars THEN LowerOf[c] ELSE c) \o LowerFrom(Tail(s))

toLowerCase(s) ==
  IF \A i \in 1..Len(s) : CharAt(s, i) \notin UpperChars THEN s ELSE LowerFrom(s)

\* String.prototype.trim
RECURSIVE trimStart(_)
trimStart(s) == IF s # "" /\ IsSpace(Head(s)) THEN trimStart(Tail(s)) ELSE s

RECURSIVE trimEnd(_)
trimEnd(s) ==
  IF s # "" /\ IsSpace(CharAt(s, Len(s)))
  THEN trimEnd(SubSeq(s, 1, Len(s) - 1))
  ELSE s

trim(s) == trimEnd(trimStart(s))

\* String.prototype.includes
includes(s, sub) ==
  \E i \in 1..(Len(s) - Len(sub) + 1) : SubSeq(s, i, i + Len(sub) - 1) = sub

\* Array.prototype.filter(flag => answer.includes(flag.toLowerCase()))
RECURSIVE filterIncluded(_, _)
filterIncluded(flags, answer) ==
  IF flags = <<>> THEN <<>>
  ELSE (IF includes(answer, toLowerCase(Head(flags))) THEN <<Head(flags)>> ELSE <<>>)
       \o filterIncluded(Tail(flags), answer)

\* Array.prototype.join
RECURSIVE join(_, _)
join(parts, sep) ==
  IF parts = <<>> THEN ""
  ELSE IF Len(parts) = 1 THEN parts[1]
  ELSE parts[1] \o sep \o join(Tail(parts), sep)

\* answer.match(/\d+/g): the first maximal run of digits, "" when there is none
FirstDigitRun(s) ==
  IF \E i \in 1..Len(s) : IsDigit(CharAt(s, i))
  THEN LET from == CHOOSE i \in 1..Len(s) :
                     /\ IsDigit(CharAt(s, i))
                     /\ \A j \in 1..(i - 1) : ~IsDigit(CharAt(s, j))
           to == CHOOSE k \in from..Len(s) :
                   /\ \A j \in from..k : IsDigit(CharAt(s, j))
                   /\ (k = Len(s) \/ ~IsDigit(CharAt(s, k + 1)))
       IN SubSeq(s, from, to)
  ELSE ""

\* parseInt of a run of digits
RECURSIVE parseInt(_)
parseInt(d) ==
  IF d = "" THEN 0
  ELSE 10 * parseInt(SubSeq(d, 1, Len(d) - 1)) + DigitValue[CharAt(d, Len(d))]

\* a division that truncates instead of rounding
RoundDiv_Floor(num, den) == num \div den

\* Math.round(num / den) for num >= 0, den > 0 (halves round up)
RoundDiv(num, den) == (2 * num + den) \div (2 * den)

\* a clamp that forgets the lower bound
Clamp_NoFloor(x) == Min(100, x)

\* Math.max(0, Math.min(100, x))
Clamp(x) == Max(0, Min(100, x))

(***************************************************************************)
(* The question bank (models/interview.types.ts).  A question's text and   *)
(* textUrdu play no part in scoring and are left out; an absent redFlags   *)
(* or greenFlags list is the empty list (the scorer skips both alike);     *)
(* visaTypes 'all' is the one-element list <<"all">>.                      *)
(***************************************************************************)
VisaTypes == {"tourist", "visit", "family", "work", "student", "business"}

Rule(t, v, sc, cat) == [type |-> t, value |-> v, score |-> sc, category |-> cat]

Q(id, cat, vts, eat, rules, red, green) ==
  [id |-> id, category |-> cat, visaTypes |-> vts, expectedAnswerType |-> eat,
   scoringRules |-> rules, redFlags |-> red, greenFlags |-> green]

INTERVIEW_QUESTIONS == <<
  Q("u1", "universal", <<"all">>, "name",
    << Rule("min_length", 3, 20, "completeness"),
       Rule("pattern", "^[A-Za-z\\s]+$", 20, "clarity") >>,
    <<>>, <<"muhammad", "khan", "ahmed", "ali">>),
  Q("u2", "universal", <<"all">>, "text",
    << Rule("contains", "pakistan", 30, "relevance") >>,
    <<"dont know", "not sure">>, <<"pakistani", "pakistan">>),
  Q("u3", "universal", <<"all">>, "text",
    << Rule("min_length", 3, 20, "completeness") >>,
    <<>>, <<"saudi", "uae", "dubai", "qatar", "uk", "usa", "canada", "malaysia">>),
  Q("u4", "universal", <<"all">>, "text",
    << Rule("min_length", 5, 15, "completeness") >>,
    <<"not sure", "dont know", "maybe">>,
    <<"work", "job", "employment", "visit family", "tourism", "holiday", "study",
      "business meeting">>),
  Q("u5", "universal", <<"all">>, "duration",
    << Rule("duration_check", "visa_appropriate", 30, "relevance") >>,
    <<"forever", "permanent", "dont know", "as long as possible">>, <<>>),
  Q("u6", "universal", <<"all">>, "address",
    << Rule("min_length", 10, 20, "completeness") >>,
    <<"dont know", "not sure", "will find">>,
    <<"hotel", "with family", "with brother", "with sister", "company accommodation",
      "hostel", "apartment">>),
  Q("u7", "universal", <<"all">>, "yes_no",
    << Rule("pattern", "(yes|no|first time|been before|visited)", 25, "clarity") >>,
    <<>>, <<>>),
  Q("u8", "universal", <<"all">>, "text",
    << Rule("min_length", 3, 20, "completeness") >>,
    <<"unemployed", "nothing", "no job">>,
    <<"engineer", "doctor", "teacher", "driver", "technician", "businessman", "student",
      "accountant">>),
  Q("u9", "universal", <<"all">>, "yes_no",
    << Rule("contains", "yes", 30, "relevance"),
       Rule("contains", "no", -20, "relevance") >>,
    <<"no", "not yet", "will buy later">>, <<"yes", "booked", "confirmed">>),
  Q("u10", "universal", <<"all">>, "text",
    << Rule("min_length", 5, 20, "completeness") >>,
    <<>>, <<"myself", "company", "employer", "brother", "father", "family", "scholarship">>),
  Q("t1", "visa_specific", <<"tourist">>, "text",
    << Rule("min_length", 5, 20, "completeness") >>,
    <<"dont know", "anywhere">>,
    <<"makkah", "madinah", "dubai", "abu dhabi", "london", "paris">>),
  Q("t2", "visa_specific", <<"tourist">>, "yes_no",
    << Rule("contains", "yes", 25, "relevance"),
       Rule("contains", "booked", 25, "relevance") >>,
    <<"no", "will book", "not yet">>, <<"yes", "booked", "confirmed", "reservation">>),
  Q("t3", "visa_specific", <<"tourist">>, "number",
    << Rule("pattern", "\\d+", 20, "completeness") >>,
    <<"nothing", "no money", "dont have">>, <<>>),
  Q("t4", "visa_specific", <<"tourist">>, "yes_no",
    << Rule("contains", "yes", 20, "relevance") >>,
    <<>>, <<"yes", "have insurance">>),
  Q("f1", "visa_specific", <<"family", "visit">>, "name",
    << Rule("min_length", 3, 25, "completeness") >>,
    <<>>,
    <<"brother", "sister", "father", "mother", "husband", "wife", "son", "daughter",
      "uncle", "aunt">>),
  Q("f2", "visa_specific", <<"family", "visit">>, "text",
    << Rule("pattern",
            "(brother|sister|father|mother|husband|wife|son|daughter|uncle|aunt|cousin|friend)",
            30, "relevance") >>,
    <<"stranger", "dont know", "agent">>,
    <<"brother", "sister", "father", "mother", "husband", "wife", "son", "daughter">>),
  Q("f3", "visa_specific", <<"family", "visit">>, "text",
    << Rule("min_length", 3, 20, "completeness") >>,
    <<"dont know", "not sure">>,
    <<"engineer", "doctor", "teacher", "driver", "technician", "businessman", "manager">>),
  Q("f4", "visa_specific", <<"family", "visit">>, "address",
    << Rule("min_length", 15, 25, "completeness") >>,
    <<"dont know", "not sure", "will tell">>, <<>>),
  Q("f5", "visa_specific", <<"family", "visit">>, "yes_no",
    << Rule("pattern", "(yes|no)", 20, "clarity") >>,
    <<>>, <<>>),
  Q("w1", "visa_specific", <<"work">>, "text",
    << Rule("min_length", 3, 25, "completeness") >>,
    <<"dont know", "not sure", "any company">>, <<>>),
  Q("w2", "visa_specific", <<"work">>, "text",
    << Rule("min_length", 3, 25, "completeness") >>,
    <<"dont know", "any job">>,
    <<"driver", "engineer", "technician", "welder", "electrician", "plumber", "chef",
      "manager", "accountant">>),
  Q("w3", "visa_specific", <<"work">>, "number",
    << Rule("pattern", "\\d+", 20, "completeness") >>,
    <<"dont know", "not sure">>, <<>>),
  Q("w4", "visa_specific", <<"work">>, "duration",
    << Rule("pattern", "(1|2|3|one|two|three)\\s*(year|years)", 25, "relevance") >>,
    <<>>, <<"1 year", "2 years", "3 years", "one year", "two years">>),
  Q("w5", "visa_specific", <<"work">>, "address",
    << Rule("min_length", 5, 20, "completeness") >>,
    <<"dont know", "not sure">>,
    <<"company accommodation", "company provided", "labor camp", "sharing">>),
  Q("w6", "visa_specific", <<"work">>, "yes_no",
    << Rule("pattern", "(yes|no|first time|worked|never)", 20, "clarity") >>,
    <<>>, <<>>),
  Q("s1", "visa_specific", <<"student">>, "text",
    << Rule("min_length", 5, 25, "completeness") >>,
    <<"dont know", "not sure", "any university">>, <<>>),
  Q("s2", "visa_specific", <<"student">>, "text",
    << Rule("min_length", 5, 25, "completeness") >>,
    <<"dont know", "not sure">>,
    <<"engineering", "medicine", "computer", "business", "mba", "masters", "bachelor",
      "phd">>),
  Q("s3", "visa_specific", <<"student">>, "text",
    << Rule("min_length", 5, 20, "completeness") >>,
    <<"dont know", "not sure">>,
    <<"scholarship", "parents", "father", "family", "savings", "education loan">>),
  Q("s4", "visa_specific", <<"student">>, "text",
    << Rule("contains", "return", 30, "relevance"),
       Rule("contains", "pakistan", 20, "relevance") >>,
    <<"stay", "settle", "permanent", "never come back">>,
    <<"return to pakistan", "come back", "serve my country", "return home">>),
  Q("b1", "visa_specific", <<"business">>, "text",
    << Rule("min_length", 10, 20, "completeness") >>,
    <<"dont know", "not sure">>,
    <<"meeting", "conference", "exhibition", "trade", "negotiation", "contract",
      "partnership">>),
  Q("b2", "visa_specific", <<"business">>, "text",
    << Rule("min_length", 5, 25, "completeness") >>,
    <<"no one", "myself", "dont know">>, <<>>),
  Q("b3", "visa_specific", <<"business">>, "text",
    << Rule("min_length", 10, 25, "completeness") >>,
    <<>>, <<"owner", "director", "manager", "ceo", "partner">>),
  Q("b4", "visa_specific", <<"business">>, "text",
    << Rule("min_length", 3, 20, "completeness") >>,
    <<>>, <<"company", "myself", "my company", "inviting company", "host company">>)
>>

QuestionIndex == 1..Len(INTERVIEW_QUESTIONS)

\* the question of the bank with the given id
QuestionById(id) ==
  INTERVIEW_QUESTIONS[CHOOSE i \in QuestionIndex : INTERVIEW_QUESTIONS[i].id = id]

\* DURATION_EXPECTATIONS
DURATION_EXPECTATIONS ==
  [v \in VisaTypes |->
     CASE v = "tourist"  -> [min |-> 5, max |-> 30, unit |-> "days"]
       [] v = "visit"    -> [min |-> 7, max |-> 90, unit |-> "days"]
       [] v = "family"   -> [min |-> 1, max |-> 12, unit |-> "months"]
       [] v = "work"     -> [min |-> 1, max |-> 3, unit |-> "years"]
       [] v = "student"  -> [min |-> 1, max |-> 5, unit |-> "years"]
       [] v = "business" -> [min |-> 3, max |-> 30, unit |-> "days"]]

\* LOW_CONFIDENCE_PATTERNS
LOW_CONFIDENCE_PATTERNS ==
  <<"um", "uh", "maybe", "i think", "i guess", "not sure", "dont know",
    "don't know", "possibly", "perhaps", "might", "could be", "i suppose">>

(***************************************************************************)
(* The regular expressions of the question bank, as new RegExp(value, 'i') *)
(* .test(answer) decides them.  The answer handed to applyRule is already  *)
(* lower-cased, so the 'i' flag changes nothing but the letter class.      *)
(***************************************************************************)
RECURSIVE Spaces(_)
Spaces(k) == IF k = 0 THEN "" ELSE " " \o Spaces(k - 1)

\* an unanchored alternation (a|b|c): some alternative occurs in s
AnyIncluded(s, alts) == \E a \in alts : includes(s, a)

RegexTest(pattern, s) ==
  CASE pattern = "^[A-Za-z\\s]+$" ->
         /\ Len(s) >= 1
         /\ \A i \in 1..Len(s) : IsLetter(CharAt(s, i)) \/ IsSpace(CharAt(s, i))
    [] pattern = "\\d+" ->
         \E i \in 1..Len(s) : IsDigit(CharAt(s, i))
    [] pattern = "(yes|no)" ->
         AnyIncluded(s, {"yes", "no"})
    [] pattern = "(yes|no|first time|been before|visited)" ->
         AnyIncluded(s, {"yes", "no", "first time", "been before", "visited"})
    [] pattern = "(yes|no|first time|worked|never)" ->
         AnyIncluded(s, {"yes", "no", "first time", "worked", "never"})
    [] pattern = "(brother|sister|father|mother|husband|wife|son|daughter|uncle|aunt|cousin|friend)" ->
         AnyIncluded(s, {"brother", "sister", "father", "mother", "husband", "wife",
                         "son", "daughter", "uncle", "aunt", "cousin", "friend"})
    [] pattern = "(1|2|3|one|two|three)\\s*(year|years)" ->
         \E a \in {"1", "2", "3", "one", "two", "three"} :
           \E k \in 0..Len(s) : includes(s, a \o Spaces(k) \o "year")
    [] OTHER -> FALSE

(***************************************************************************)
(* InterviewService.applyRule: whether one scoring rule applies.           *)
(***************************************************************************)
applyRule(rule, answer) ==
  CASE rule.type = "contains"     -> includes(answer, toLowerCase(rule.value))
    [] rule.type = "not_contains" -> ~includes(answer, toLowerCase(rule.value))
    [] rule.type = "min_length"   -> Len(answer) >= rule.value
    [] rule.type = "max_length"   -> Len(answer) <= rule.value
    [] rule.type = "pattern"      -> RegexTest(rule.value, answer)
    [] OTHER                      -> FALSE

(***************************************************************************)
(* InterviewService.checkDuration.  An absent feedback or flagReason is    *)
(* Undefined.  actualDays <= maxDays * 1.5 is compared in halves.          *)
(***************************************************************************)
Undefined == "<undefined>"

checkDuration(answer, visaType) ==
  LET expectations == DURATION_EXPECTATIONS[visaType]
      numbers == FirstDigitRun(answer)
      duration == parseInt(numbers)
      isYears == includes(answer, "year")
      isMonths == includes(answer, "month")
      actualDays == IF isYears THEN duration * 365
                    ELSE IF isMonths THEN duration * 30
                    ELSE duration
      factor == IF expectations.unit = "years" THEN 365
                ELSE IF expectations.unit = "months" THEN 30
                ELSE 1
      minDays == expectations.min * factor
      maxDays == expectations.max * factor
  IN IF numbers = ""
     THEN [adjustment |-> -10, feedback |-> "Please specify the duration clearly.",
           flagged |-> FALSE, flagReason |-> Undefined]
     ELSE IF includes(answer, "forever") \/ includes(answer, "permanent")
             \/ includes(answer, "settle")
     THEN [adjustment |-> -40,
           feedback |-> "Indicating permanent stay is a red flag for most visa types.",
           flagged |-> TRUE, flagReason |-> "Indicated permanent stay intention"]
     ELSE IF visaType = "tourist" /\ actualDays > 90
     THEN [adjustment |-> -30,
           feedback |-> "Tourist visa stays are typically short (few weeks). Long stays may raise concerns.",
           flagged |-> TRUE, flagReason |-> "Duration too long for tourist visa"]
     ELSE IF actualDays >= minDays /\ 2 * actualDays <= 3 * maxDays
     THEN [adjustment |-> 20, feedback |-> "Duration is appropriate.",
           flagged |-> FALSE, flagReason |-> Undefined]
     ELSE [adjustment |-> 0, feedback |-> Undefined,
           flagged |-> FALSE, flagReason |-> Undefined]

(***************************************************************************)
(* InterviewService.checkConsistency.  previousAnswers is a function from  *)
(* question ids to lower-cased answers; Map.get of an absent key and of an *)
(* empty answer are both falsy.                                            *)
(***************************************************************************)
MapGet(m, k) == IF k \in DOMAIN m THEN m[k] ELSE ""

checkConsistency(question, answer, previousAnswers) ==
  LET purposeAnswer == MapGet(previousAnswers, "u4")
  IN IF /\ purposeAnswer # ""
        /\ question.id = "u5"
        /\ includes(purposeAnswer, "tourist")
        /\ includes(answer, "year")
     THEN [adjustment |-> -20,
           feedback |-> "Your stated duration seems inconsistent with tourist purpose."]
     ELSE [adjustment |-> 0, feedback |-> Undefined]

(***************************************************************************)
(* InterviewService.scoreAnswer.  The method updates scores, flagged,      *)
(* flagReason and feedbackParts in nine numbered steps; each step is an    *)
(* operator on the record st of these four, and scoreAnswer chains them in *)
(* the order of the code.                                                  *)
(***************************************************************************)
InitialScoring ==
  [scores |-> [completeness |-> 50, clarity |-> 50, relevance |-> 50,
               confidence |-> 50, consistency |-> 50, total |-> 0],
   flagged |-> FALSE, flagReason |-> Undefined, feedbackParts |-> <<>>]

\* 1. empty or very short answers
ShortAnswerStep(st, answerLower) ==
  IF Len(answerLower) < 2
  THEN [st EXCEPT !.scores.completeness = 0,
                  !.scores.clarity = 0,
                  !.flagged = TRUE,
                  !.flagReason = "Answer too short or empty",
                  !.feedbackParts = Append(@, "Please provide a complete answer.")]
  ELSE st

\* 2. green flags
GreenFlagStep(st, question, answerLower) ==
  LET matchedGreenFlags == filterIncluded(question.greenFlags, answerLower)
  IN IF Len(matchedGreenFlags) > 0
     THEN [st EXCEPT !.scores.relevance = @ + 15 * Len(matchedGreenFlags),
                     !.scores.completeness = @ + 10]
     ELSE st

\* 3. red flags
RedFlagStep(st, question, answerLower) ==
  LET matchedRedFlags == filterIncluded(question.redFlags, answerLower)
  IN IF Len(matchedRedFlags) > 0
     THEN [st EXCEPT !.scores.relevance = @ - 20 * Len(matchedRedFlags),
                     !.flagged = TRUE,
                     !.flagReason = "Concerning response detected: "
                                      \o join(matchedRedFlags, ", "),
                     !.feedbackParts =
                        Append(@, "This answer may raise concerns with immigration officers.")]
     ELSE st

\* a low-confidence step that takes 15 off once, however many patterns match
LowConfidenceStep_FlatPenalty(st, answerLower) ==
  LET confidenceIssues == filterIncluded(LOW_CONFIDENCE_PATTERNS, answerLower)
  IN IF Len(confidenceIssues) > 0
     THEN [st EXCEPT !.scores.confidence = @ - 15,
                     !.feedbackParts =
                        Append(@, "Try to sound more confident. Avoid words like \"maybe\" or \"I think\".")]
     ELSE st

\* 4. low confidence patterns
LowConfidenceStep(st, answerLower) ==
  LET confidenceIssues == filterIncluded(LOW_CONFIDENCE_PATTERNS, answerLower)
  IN IF Len(confidenceIssues) > 0
     THEN [st EXCEPT !.scores.confidence = @ - 15 * Len(confidenceIssues),
                     !.feedbackParts =
                        Append(@, "Try to sound more confident. Avoid words like \"maybe\" or \"I think\".")]
     ELSE st

\* 5. duration-specific checks
DurationStep(st, question, answerLower, visaType) ==
  IF question.expectedAnswerType = "duration"
  THEN LET durationScore == checkDuration(answerLower, visaType)
       IN [st EXCEPT !.scores.relevance = @ + durationScore.adjustment,
                     !.feedbackParts = IF durationScore.feedback # Undefined
                                       THEN Append(@, durationScore.feedback) ELSE @,
                     !.flagged = IF durationScore.flagged THEN TRUE ELSE @,
                     !.flagReason = IF durationScore.flagged
                                    THEN durationScore.flagReason ELSE @]
  ELSE st

\* 6. yes/no specific checks
YesNoStep(st, question, answerLower) ==
  IF question.expectedAnswerType = "yes_no"
  THEN IF includes(answerLower, "yes") \/ includes(answerLower, "no")
       THEN [st EXCEPT !.scores.clarity = @ + 20]
       ELSE [st EXCEPT !.scores.clarity = @ - 10,
                       !.feedbackParts = Append(@, "Please answer clearly with yes or no.")]
  ELSE st

\* a return-ticket check that rewards a confirmed ticket with 90 instead of 100
ReturnTicketStep_Reward90(st, question, answerLower, visaType) ==
  IF question.id = "u9" /\ (visaType = "tourist" \/ visaType = "visit")
  THEN IF \/ includes(answerLower, "no")
          \/ includes(answerLower, "not yet")
          \/ includes(answerLower, "don't have")
       THEN [st EXCEPT !.scores.relevance = 10, !.flagged = TRUE]
       ELSE IF includes(answerLower, "yes") \/ includes(answerLower, "booked")
       THEN [st EXCEPT !.scores.relevance = 90]
       ELSE st
  ELSE st

\* 7. return ticket specific check
ReturnTicketStep(st, question, answerLower, visaType) ==
  IF question.id = "u9" /\ (visaType = "tourist" \/ visaType = "visit")
  THEN IF \/ includes(answerLower, "no")
          \/ includes(answerLower, "not yet")
          \/ includes(answerLower, "don't have")
       THEN [st EXCEPT !.scores.relevance = 10,
                       !.flagged = TRUE,
                       !.flagReason = "No return ticket - major concern for tourist/visit visa",
                       !.feedbackParts =
                          Append(@, "Having a return ticket is essential for tourist and visit visas.")]
       ELSE IF includes(answerLower, "yes") \/ includes(answerLower, "booked")
       THEN [st EXCEPT !.scores.relevance = 100]
       ELSE st
  ELSE st

\* 8. consistency check with previous answers
ConsistencyStep(st, question, answerLower, previousAnswers) ==
  LET consistencyCheck == checkConsistency(question, answerLower, previousAnswers)
  IN [st EXCEPT !.scores.consistency = @ + consistencyCheck.adjustment,
                !.feedbackParts = IF consistencyCheck.feedback # Undefined
                                  THEN Append(@, consistencyCheck.feedback) ELSE @]

\* 9. the scoring rules of the question definition, in order
RECURSIVE ApplyRules(_, _, _)
ApplyRules(scores, rules, answerLower) ==
  IF rules = <<>> THEN scores
  ELSE LET rule == Head(rules)
           next == IF applyRule(rule, answerLower)
                   THEN [scores EXCEPT ![rule.category] = @ + rule.score]
                   ELSE scores
       IN ApplyRules(next, Tail(rules), answerLower)

RulesStep(st, question, answerLower) ==
  [st EXCEPT !.scores = ApplyRules(@, question.scoringRules, answerLower)]

\* normalize scores (0-100)
NormalizeScores(scores) ==
  [scores EXCEPT !.completeness = Clamp(@),
                 !.clarity = Clamp(@),
                 !.relevance = Clamp(@),
                 !.confidence = Clamp(@),
                 !.consistency = Clamp(@)]

\* total: the rounded average of the five categories
TotalOf(scores) ==
  RoundDiv(scores.completeness + scores.clarity + scores.relevance
             + scores.confidence + scores.consistency, 5)

\* the feedback text
FeedbackOf(feedbackParts, total) ==
  IF Len(feedbackParts) > 0 THEN join(feedbackParts, " ")
  ELSE IF total >= 80 THEN "Good answer!"
  ELSE IF total >= 60 THEN "Acceptable answer, but could be improved."
  ELSE "This answer needs improvement."

scoreAnswer(question, answer, visaType, previousAnswers) ==
  LET answerLower == trim(toLowerCase(answer))
      s1 == ShortAnswerStep(InitialScoring, answerLower)
      s2 == GreenFlagStep(s1, question, answerLower)
      s3 == RedFlagStep(s2, question, answerLower)
      s4 == LowConfidenceStep(s3, answerLower)
      s5 == DurationStep(s4, question, answerLower, visaType)
      s6 == YesNoStep(s5, question, answerLower)
      s7 == ReturnTicketStep(s6, question, answerLower, visaType)
      s8 == ConsistencyStep(s7, question, answerLower, previousAnswers)
      s9 == RulesStep(s8, question, answerLower)
      normalized == NormalizeScores(s9.scores)
      scores == [normalized EXCEPT !.total = TotalOf(normalized)]
  IN [scores |-> scores,
      feedback |-> FeedbackOf(s9.feedbackParts, scores.total),
      flagged |-> s9.flagged,
      flagReason |-> s9.flagReason]

(***************************************************************************)
(* The parts of the state a specification does not exercise stay as        *)
(* constructed.                                                            *)
(***************************************************************************)
NoResponse == [op |-> "none", sid |-> 0, error |-> Undefined, value |-> <<>>]

NoLimits == [ids |-> {}, visas |-> {}, submits |-> 0, shuffles |-> 0,
             weak |-> 0, ends |-> 0, badVisas |-> {}, countries |-> {}]

SessionsIdle ==
  /\ limits = NoLimits
  /\ sessions = <<>>
  /\ active = {}
  /\ pendingEnds = <<>>
  /\ saveCalls = <<>>
  /\ endReturns = <<>>
  /\ response = NoResponse

\* getQuestionsForVisaType not called
NoQuestions == [called |-> FALSE, questions |-> <<>>]

QuestionsIdle ==
  /\ qVisa = ""
  /\ qCount = 0
  /\ qOrder = 0
  /\ qResult = NoQuestions

\* no call of the Gemini gateway in flight, none completed
NoCall == [op |-> "none", pc |-> "idle", attempt |-> 0, wakeAt |-> 0,
           answer |-> "", answers |-> <<>>, modelCalls |-> 0,
           unavailableAtStart |-> FALSE, said |-> "none"]
NoReturn == [op |-> "none", threw |-> FALSE, value |-> <<>>, answer |-> "",
             answers |-> <<>>, modelCalls |-> 0, unavailableAtStart |-> FALSE,
             said |-> "none"]

\* the Gemini gateway unconfigured and untouched
GeminiIdle ==
  /\ genAI = FALSE
  /\ model = "null"
  /\ modelName = ""
  /\ verified = FALSE
  /\ rateLimited = FALSE
  /\ rateLimitResetTime = 0
  /\ now = 0
  /\ verifying = 0
  /\ call = NoCall
  /\ returned = NoReturn

\* bounds of the WhatsApp workload: media messages and 'done' messages
MaxDocs == 2
MaxDone == 1

DocIds == 1..MaxDocs
DoneIds == 1..MaxDone

NoRun == [pc |-> "unsent", array |-> 0, index |-> 0, startCountry |-> "null",
          startLen |-> 0]

\* the user's session as handleWhatsAppMessage creates it, no message handled
WhatsAppIdle ==
  /\ wCountry = "null"
  /\ wArrays = << <<>> >>
  /\ wCurrent = 1
  /\ wMedia = [d \in DocIds |-> "unsent"]
  /\ wRuns = [r \in DoneIds |-> NoRun]
  /\ wProcessed = {}

(***************************************************************************)
(* Specification SpecScore: one call of scoreAnswer on any question of the *)
(* bank, any visa type, an answer made of at most MaxPhrases phrases of    *)
(* ScorePhrases (in the order of the list, joined by one space) and one of *)
(* the previous-answers maps of PrevMaps.                                  *)
(***************************************************************************)
ScorePhrases ==
  <<" a", "Yes", "no", "booked", "not yet", "maybe", "not sure", "forever",
    "100 days", "20 weeks", "4 months", "2 years", "Muhammad Khan Ahmed Ali",
    "um uh i think i guess">>

RECURSIVE PhraseSeqs(_, _)
PhraseSeqs(n, from) ==
  IF n = 0 THEN {<<>>}
  ELSE {<<>>} \cup
       UNION { { <<ScorePhrases[i]>> \o t : t \in PhraseSeqs(n - 1, i + 1) }
               : i \in from..Len(ScorePhrases) }

ScoreAnswers == { join(ps, " ") : ps \in PhraseSeqs(MaxPhrases, 1) }

EmptyMap == <<>>

PrevMaps == { EmptyMap, [k \in {"u4"} |-> "tourist trip to see the city"] }

NoResult == [scores |-> <<>>, feedback |-> Undefined, flagged |-> FALSE,
             flagReason |-> Undefined]

InitScore ==
  /\ sQuestion \in QuestionIndex
  /\ sAnswer \in ScoreAnswers
  /\ sVisa \in VisaTypes
  /\ sPrev \in PrevMaps
  /\ sResult = NoResult
  /\ QuestionsIdle
  /\ SessionsIdle
  /\ GeminiIdle
  /\ WhatsAppIdle

\* the call: scoreAnswer(question, answer, visaType, previousAnswers)
ScoreCall ==
  /\ sResult = NoResult
  /\ sResult' = scoreAnswer(INTERVIEW_QUESTIONS[sQuestion], sAnswer, sVisa, sPrev)
  /\ UNCHANGED <<sQuestion, sAnswer, sVisa, sPrev>>
  /\ UNCHANGED questionVars
  /\ UNCHANGED geminiVars
  /\ UNCHANGED sessionVars
  /\ UNCHANGED whatsappVars

NextScore == ScoreCall

SpecScore == InitScore /\ [][NextScore]_vars

\* the call has returned
Scored == sResult # NoResult
\* the answer as the scorer sees it
sAnswerLower == trim(toLowerCase(sAnswer))
sQ == INTERVIEW_QUESTIONS[sQuestion]

(***************************************************************************)
(* Properties of the rule-based scorer (SpecScore).                        *)
(***************************************************************************)
sScores == sResult.scores
sSum == sScores.completeness + sScores.clarity + sScores.relevance
          + sScores.confidence + sScores.consistency

\* C1: every Score Breakdown returned by scoreAnswer has its five dimensions
\* within 0..100 and total equal to the rounded mean of the five
\* (sum/5 - 1/2 <= total < sum/5 + 1/2).
C1_ScoresClampedAndTotalIsMean ==
  Scored =>
    /\ \A d \in {"completeness", "clarity", "relevance", "confidence", "consistency"} :
         sScores[d] \in 0..100
    /\ 2 * sSum - 5 <= 10 * sScores.total
    /\ 10 * sScores.total < 2 * sSum + 5

\* a returned breakdown in which the clamp acted at both ends
C1_Witness ==
  /\ Scored
  /\ sScores.relevance = 100
  /\ sScores.confidence = 0
  /\ sScores.total > 0

\* C3 (as claimed): an answer whose trimmed, lower-cased length is below 2
\* comes back flagged with completeness = 0 and clarity = 0.
C3_ShortAnswerZeroed ==
  (Scored /\ Len(sAnswerLower) < 2) =>
    /\ sResult.flagged
    /\ sScores.completeness = 0
    /\ sScores.clarity = 0

\* C4 (as claimed): on the return-ticket question u9 with visa type tourist, an
\* answer containing "no" or "not yet" comes back flagged with relevance <= 10.
C4_NoTicketRelevanceAtMost10 ==
  (/\ Scored
   /\ sQ.id = "u9"
   /\ sVisa = "tourist"
   /\ (includes(sAnswerLower, "no") \/ includes(sAnswerLower, "not yet"))) =>
    /\ sResult.flagged
    /\ sScores.relevance <= 10

\* C5 (as claimed): on the return-ticket question u9 with visa type tourist, an
\* answer containing "yes" or "booked" comes back with relevance exactly 100.
C5_TicketRelevance100 ==
  (/\ Scored
   /\ sQ.id = "u9"
   /\ sVisa = "tourist"
   /\ (includes(sAnswerLower, "yes") \/ includes(sAnswerLower, "booked"))) =>
    sScores.relevance = 100

\* C5 (amended): on u9 with visa type tourist, an answer containing "yes" or
\* "booked" that contains neither "no" (so not "not yet" either) nor
\* "don't have" comes back with relevance exactly 100.
C5_TicketRelevance100UnlessDenied ==
  (/\ Scored
   /\ sQ.id = "u9"
   /\ sVisa = "tourist"
   /\ (includes(sAnswerLower, "yes") \/ includes(sAnswerLower, "booked"))
   /\ ~includes(sAnswerLower, "no")
   /\ ~includes(sAnswerLower, "don't have")) =>
    sScores.relevance = 100

\* a tourist answer to u9 that says "booked" without "yes", scored 100
C5_Witness ==
  /\ Scored
  /\ sQ.id = "u9"
  /\ sVisa = "tourist"
  /\ includes(sAnswerLower, "booked")
  /\ ~includes(sAnswerLower, "yes")
  /\ ~includes(sAnswerLower, "no")
  /\ sScores.relevance = 100

\* the duration an answer states, in days: its first integer, in the unit the
\* answer names (a year 365 days, a month 30, a week 7, a day or no unit 1)
StatedDays(answer) ==
  LET n == parseInt(FirstDigitRun(answer))
  IN IF includes(answer, "year") THEN n * 365
     ELSE IF includes(answer, "month") THEN n * 30
     ELSE IF includes(answer, "week") THEN n * 7
     ELSE n

\* C6 (as claimed): with visa type tourist, a duration-type answer stating more
\* than 90 days comes back flagged, the reason being that the duration is too
\* long for a tourist visa.
C6_TouristOver90DaysFlagged ==
  (/\ Scored
   /\ sVisa = "tourist"
   /\ sQ.expectedAnswerType = "duration"
   /\ FirstDigitRun(sAnswerLower) # ""
   /\ StatedDays(sAnswerLower) > 90) =>
    /\ sResult.flagged
    /\ sResult.flagReason = "Duration too long for tourist visa"

(***************************************************************************)
(* getQuestionsForVisaType.  The result lists question ids (the questions  *)
(* are immutable bank entries).  sort(() => Math.random() - 0.5) may leave *)
(* the list in any order; order picks one of MaxShuffles orders: as is,    *)
(* reversed, or rotated.                                                   *)
(***************************************************************************)
IsUniversalFor(q, visaType) ==
  /\ q.category = "universal"
  /\ (q.visaTypes = <<"all">> \/ visaType \in Range(q.visaTypes))

\* a visa-specific filter that forgets the visa type
IsSpecificFor_AnyVisa(q, visaType) ==
  /\ q.category = "visa_specific"
  /\ q.visaTypes # <<"all">>

IsSpecificFor(q, visaType) ==
  /\ q.category = "visa_specific"
  /\ q.visaTypes # <<"all">>
  /\ visaType \in Range(q.visaTypes)

\* Array.prototype.filter over the bank, keeping ids
RECURSIVE FilterIds(_, _, _)
FilterIds(qs, visaType, universal) ==
  IF qs = <<>> THEN <<>>
  ELSE (IF (IF universal THEN IsUniversalFor(Head(qs), visaType)
                         ELSE IsSpecificFor(Head(qs), visaType))
        THEN <<Head(qs).id>> ELSE <<>>)
       \o FilterIds(Tail(qs), visaType, universal)

\* Array.prototype.slice(0, n); a negative n counts from the end
SliceTo(seq, n) ==
  SubSeq(seq, 1, IF n < 0 THEN Max(Len(seq) + n, 0) ELSE Min(n, Len(seq)))

ShuffleOrders == 1..MaxShuffles

Shuffled(seq, order) ==
  LET n == Len(seq)
  IN [i \in 1..n |->
        IF order = 1 THEN seq[i]
        ELSE IF order = 2 THEN seq[n + 1 - i]
        ELSE seq[((i + order - 3) % n) + 1]]

getQuestionsForVisaType(visaType, count, order) ==
  LET universalQuestions == FilterIds(INTERVIEW_QUESTIONS, visaType, TRUE)
      visaSpecificQuestions == FilterIds(INTERVIEW_QUESTIONS, visaType, FALSE)
      selectedUniversal == SliceTo(universalQuestions, 6)
      selectedSpecific == SliceTo(visaSpecificQuestions, 4)
      combined == selectedUniversal \o selectedSpecific
  IN SliceTo(Shuffled(combined, order), count)

(***************************************************************************)
(* The answers callers submit: to each question a strong answer (longer    *)
(* than 50 characters, naming green flags of the question, free of its red *)
(* flags), or the weak one-letter answer.                                  *)
(***************************************************************************)
WeakAnswer == "a"

StrongAnswer(id, visaType) ==
  CASE id = "u1" -> "My full name is Ahmed Ali Khan as it is written in my passport"
    [] id = "u2" -> "I am a Pakistani citizen and I hold a valid passport of Pakistan"
    [] id = "u3" -> "I am traveling to Dubai in the UAE and after that to Saudi Arabia"
    [] id = "u4" -> "I am going for tourism and a holiday with my family for two weeks"
    [] id = "u5" ->
         (IF visaType \in {"work", "student"}
          THEN "I plan to stay for 2 years and after that I will go back to Lahore"
          ELSE IF visaType = "family"
          THEN "I plan to stay for 3 months and after that I will go back to Lahore"
          ELSE "I plan to stay for 10 days and after that I will go back to Lahore")
    [] id = "u6" -> "I will be staying at a hotel in the city center which is paid already"
    [] id = "t1" -> "I plan to visit Makkah and Madinah and after that Dubai and Abu Dhabi"
    [] id = "t2" -> "Yes I have booked my hotel and the reservation is confirmed already"
    [] id = "t3" -> "I have 5000 dollars in cash and a credit card for the whole trip"
    [] id = "t4" -> "Yes I have insurance for travel that covers the whole trip abroad"
    [] id = "f1" -> "I will be visiting my brother Bilal who lives there with his wife"
    [] id = "f2" -> "He is my elder brother and our father and mother live with him there"
    [] id = "f3" -> "My brother is a doctor at a big hospital and was a teacher before that"
    [] id = "f4" -> "House 12 Street 5 in the Al Nahda district of Dubai beside the metro"
    [] id = "w1" -> "I will work at Emaar Properties which is a big firm in Dubai city"
    [] id = "w2" -> "I will work as a site engineer and later as a project manager there"
    [] id = "w3" -> "My salary will be 5000 dirhams plus a housing allowance paid by the firm"
    [] id = "w4" -> "My work contract is for 2 years and it can be extended after that"
    [] id = "s1" -> "I will study at the University of Manchester in the city center"
    [] id = "s2" -> "I will study a masters program in computer engineering for two years"
    [] id = "s3" -> "I have a full scholarship and my father and family will help me as well"
    [] id = "s4" -> "After my studies I will return to Pakistan and serve my country at home"
    [] id = "b1" -> "I am attending a trade exhibition and a business meeting with a partner"
    [] id = "b2" -> "I will meet the sales director of Al Futtaim Group at their head office"
    [] id = "b3" -> "I am the owner and director of a textile export firm based in Lahore"
    [] id = "b4" -> "My company will pay for the whole trip and the host company for the hotel"
    [] OTHER -> "Yes I have everything that is required for this trip and I can show it"

\* the answer is strong for the question: long, green-flagged, free of red flags
IsStrong(q, answer) ==
  LET answerLower == trim(toLowerCase(answer))
  IN /\ Len(answer) > 50
     /\ (q.greenFlags # <<>> => filterIncluded(q.greenFlags, answerLower) # <<>>)
     /\ filterIncluded(q.redFlags, answerLower) = <<>>

(***************************************************************************)
(* InterviewService: startInterview, submitAnswer, endInterview.           *)
(*                                                                         *)
(* A session id is a fresh uuid: the ids are 1, 2, ... in the order of     *)
(* issue, and UnknownId is an id no startInterview ever returns.  Each     *)
(* ActiveSession object lives in sessions; active holds the keys of the    *)
(* activeSessions map.  startInterview and submitAnswer contain no await   *)
(* and run to completion; endInterview suspends once, at                   *)
(* await this.saveSession(session), and is two actions.                    *)
(***************************************************************************)
UnknownId == 0

NotFound == "Session not found or expired"
TypeError == "TypeError: Cannot read properties of undefined"

Issued == DOMAIN sessions

\* Map/record update: m with key k set to v
MapSet(m, k, v) == [x \in DOMAIN m \cup {k} |-> IF x = k THEN v ELSE m[x]]

NewActiveSession(visaType, destinationCountry, questions) ==
  [session |-> [visaType |-> visaType,
                destinationCountry |-> destinationCountry,
                endTime |-> Undefined,
                totalQuestions |-> Len(questions),
                questionsAsked |-> <<>>,
                overallScore |-> 0,
                passed |-> FALSE,
                feedback |-> "",
                improvements |-> <<>>],
   questions |-> questions,
   currentIndex |-> 0,
   previousAnswers |-> EmptyMap]

\* this.activeSessions.set(sessionId, ...) with the new session object
createSession(sessionId, visaType, destinationCountry, questions) ==
  /\ sessionId \in limits.ids
  /\ sessions' = MapSet(sessions, sessionId,
                        NewActiveSession(visaType, destinationCountry, questions))
  /\ active' = active \cup {sessionId}
  /\ pendingEnds' = MapSet(pendingEnds, sessionId, 0)
  /\ saveCalls' = MapSet(saveCalls, sessionId, 0)
  /\ endReturns' = MapSet(endReturns, sessionId, 0)
  /\ UNCHANGED limits

\* a startInterview that asks for nine questions
startInterview_NineQuestions(visaType, destinationCountry, order) ==
  LET sessionId == Cardinality(Issued) + 1
      questions == getQuestionsForVisaType(visaType, 9, order)
  IN /\ createSession(sessionId, visaType, destinationCountry, questions)
     /\ response' = [op |-> "startInterview", sid |-> sessionId, error |-> Undefined,
                     value |-> [sessionId |-> sessionId,
                                firstQuestion |-> questions[1],
                                totalQuestions |-> Len(questions)]]

\* startInterview: no await, runs to completion
startInterview(visaType, destinationCountry, order) ==
  LET sessionId == Cardinality(Issued) + 1
      questions == getQuestionsForVisaType(visaType, 10, order)
  IN /\ createSession(sessionId, visaType, destinationCountry, questions)
     /\ response' = [op |-> "startInterview", sid |-> sessionId, error |-> Undefined,
                     value |-> [sessionId |-> sessionId,
                                firstQuestion |-> questions[1],
                                totalQuestions |-> Len(questions)]]

StartInterview ==
  /\ \E visaType \in limits.visas : \E order \in 1..limits.shuffles :
       startInterview(visaType, "SA", order)
  /\ UNCHANGED <<scoreVars, questionVars, geminiVars, whatsappVars>>

(***************************************************************************)
(* router.post('/start'): the request body is validated, then the service  *)
(* is called.  A missing field and an empty one are both falsy and are the *)
(* empty string here.  The response records the request beside the status. *)
(***************************************************************************)
VALID_VISA_TYPES == <<"tourist", "visit", "family", "work", "student", "business">>

\* a route that hands every request to the service
postStart_Unvalidated(visaType, destinationCountry, order) ==
  LET sessionId == Cardinality(Issued) + 1
      questions == getQuestionsForVisaType(visaType, 10, order)
  IN /\ createSession(sessionId, visaType, destinationCountry, questions)
     /\ response' = [op |-> "POST /start", sid |-> sessionId, error |-> Undefined,
                     value |-> [visaType |-> visaType,
                                destinationCountry |-> destinationCountry,
                                status |-> 200,
                                question |-> questions[1],
                                totalQuestions |-> Len(questions)]]

postStart(visaType, destinationCountry, order) ==
  LET reject(message) ==
        /\ response' = [op |-> "POST /start", sid |-> 0, error |-> message,
                        value |-> [visaType |-> visaType,
                                   destinationCountry |-> destinationCountry,
                                   status |-> 400]]
        /\ UNCHANGED <<limits, sessions, active, pendingEnds, saveCalls, endReturns>>
      sessionId == Cardinality(Issued) + 1
      questions == getQuestionsForVisaType(visaType, 10, order)
  IN IF visaType = "" \/ visaType \notin Range(VALID_VISA_TYPES)
     THEN reject("Invalid visa type. Must be one of: " \o join(VALID_VISA_TYPES, ", "))
     ELSE IF destinationCountry = ""
     THEN reject("Destination country is required")
     ELSE /\ createSession(sessionId, visaType, destinationCountry, questions)
          /\ response' = [op |-> "POST /start", sid |-> sessionId, error |-> Undefined,
                          value |-> [visaType |-> visaType,
                                     destinationCountry |-> destinationCountry,
                                     status |-> 200,
                                     question |-> questions[1],
                                     totalQuestions |-> Len(questions)]]

\* the visa types and destinations of request bodies
RequestVisas == limits.visas \cup limits.badVisas
RequestCountries == limits.countries

PostStart ==
  /\ \E visaType \in RequestVisas : \E destinationCountry \in RequestCountries :
       \E order \in 1..limits.shuffles :
         postStart(visaType, destinationCountry, order)
  /\ UNCHANGED <<scoreVars, questionVars, geminiVars, whatsappVars>>

\* the weak answers a session has received so far
WeakCount(sid) ==
  Cardinality({ i \in DOMAIN sessions[sid].session.questionsAsked :
                  sessions[sid].session.questionsAsked[i].userAnswer = WeakAnswer })

\* a submitAnswer that does not store the answer in previousAnswers
submitAnswer_ForgetsAnswer(sessionId, answer, responseTimeMs) ==
  IF sessionId \notin active
  THEN /\ response' = [op |-> "submitAnswer", sid |-> sessionId, error |-> NotFound,
                       value |-> <<>>]
       /\ UNCHANGED <<limits, sessions, active, pendingEnds, saveCalls, endReturns>>
  ELSE LET activeSession == sessions[sessionId]
           session == activeSession.session
           questions == activeSession.questions
           currentIndex == activeSession.currentIndex
       IN IF currentIndex >= Len(questions)
          \* questions[currentIndex] is undefined: scoreAnswer reads
          \* question.greenFlags and throws before anything is recorded
          THEN /\ response' = [op |-> "submitAnswer", sid |-> sessionId,
                               error |-> TypeError, value |-> <<>>]
               /\ UNCHANGED <<limits, sessions, active, pendingEnds, saveCalls, endReturns>>
          ELSE \E scored \in {scoreAnswer(QuestionById(questions[currentIndex + 1]), answer,
                                          session.visaType,
                                          activeSession.previousAnswers)} :
               LET currentQuestion == QuestionById(questions[currentIndex + 1])
                   questionAnswer == [questionId |-> currentQuestion.id,
                                      userAnswer |-> answer,
                                      responseTimeMs |-> responseTimeMs,
                                      scores |-> scored.scores,
                                      flagged |-> scored.flagged,
                                      flagReason |-> scored.flagReason,
                                      feedback |-> scored.feedback]
                   newIndex == currentIndex + 1
                   isComplete == newIndex >= Len(questions)
               IN /\ sessions' =
                       [sessions EXCEPT
                          ![sessionId].session.questionsAsked = Append(@, questionAnswer),
                          ![sessionId].currentIndex = newIndex]
                  /\ response' =
                       [op |-> "submitAnswer", sid |-> sessionId, error |-> Undefined,
                        value |-> [scores |-> scored.scores,
                                   feedback |-> scored.feedback,
                                   flagged |-> scored.flagged,
                                   flagReason |-> scored.flagReason,
                                   nextQuestion |-> IF isComplete THEN Undefined
                                                    ELSE questions[newIndex + 1],
                                   questionNumber |-> currentIndex + 1,
                                   isComplete |-> isComplete]]
                  /\ UNCHANGED <<limits, active, pendingEnds, saveCalls, endReturns>>

\* submitAnswer: runs to completion, there is no await in it
submitAnswer(sessionId, answer, responseTimeMs) ==
  IF sessionId \notin active
  THEN /\ response' = [op |-> "submitAnswer", sid |-> sessionId, error |-> NotFound,
                       value |-> <<>>]
       /\ UNCHANGED <<limits, sessions, active, pendingEnds, saveCalls, endReturns>>
  ELSE LET activeSession == sessions[sessionId]
           session == activeSession.session
           questions == activeSession.questions
           currentIndex == activeSession.currentIndex
       IN IF currentIndex >= Len(questions)
          \* questions[currentIndex] is undefined: scoreAnswer reads
          \* question.greenFlags and throws before anything is recorded
          THEN /\ response' = [op |-> "submitAnswer", sid |-> sessionId,
                               error |-> TypeError, value |-> <<>>]
               /\ UNCHANGED <<limits, sessions, active, pendingEnds, saveCalls, endReturns>>
          ELSE \E scored \in {scoreAnswer(QuestionById(questions[currentIndex + 1]), answer,
                                          session.visaType,
                                          activeSession.previousAnswers)} :
               LET currentQuestion == QuestionById(questions[currentIndex + 1])
                   questionAnswer == [questionId |-> currentQuestion.id,
                                      userAnswer |-> answer,
                                      responseTimeMs |-> responseTimeMs,
                                      scores |-> scored.scores,
                                      flagged |-> scored.flagged,
                                      flagReason |-> scored.flagReason,
                                      feedback |-> scored.feedback]
                   newIndex == currentIndex + 1
                   isComplete == newIndex >= Len(questions)
               IN /\ sessions' =
                       [sessions EXCEPT
                          ![sessionId].previousAnswers =
                             MapSet(@, currentQuestion.id, toLowerCase(answer)),
                          ![sessionId].session.questionsAsked = Append(@, questionAnswer),
                          ![sessionId].currentIndex = newIndex]
                  /\ response' =
                       [op |-> "submitAnswer", sid |-> sessionId, error |-> Undefined,
                        value |-> [scores |-> scored.scores,
                                   feedback |-> scored.feedback,
                                   flagged |-> scored.flagged,
                                   flagReason |-> scored.flagReason,
                                   nextQuestion |-> IF isComplete THEN Undefined
                                                    ELSE questions[newIndex + 1],
                                   questionNumber |-> currentIndex + 1,
                                   isComplete |-> isComplete]]
                  /\ UNCHANGED <<limits, active, pendingEnds, saveCalls, endReturns>>

\* the answers a caller gives to the session's current question
AnswersFor(sid) ==
  IF sid \in Issued /\ sessions[sid].currentIndex < Len(sessions[sid].questions)
  THEN {StrongAnswer(sessions[sid].questions[sessions[sid].currentIndex + 1],
                     sessions[sid].session.visaType)}
       \cup (IF WeakCount(sid) < limits.weak THEN {WeakAnswer} ELSE {})
  ELSE {WeakAnswer}

SubmitAnswer ==
  /\ \E sessionId \in Issued \cup {UnknownId} :
       /\ sessionId \in active => sessions[sessionId].currentIndex < limits.submits
       /\ \E answer \in AnswersFor(sessionId) :
            submitAnswer(sessionId, answer, 1500)
  /\ UNCHANGED <<scoreVars, questionVars, geminiVars, whatsappVars>>

\* sum of f(q) over the recorded answers
RECURSIVE SumOver(_, _)
SumOver(asked, dim) ==
  IF asked = <<>> THEN 0
  ELSE asked[1].scores[dim] + SumOver(Tail(asked), dim)

pushIf(cond, list, item) == IF cond THEN Append(list, item) ELSE list

generateFeedback(session) ==
  LET asked == session.questionsAsked
      count == IF Len(asked) = 0 THEN 1 ELSE Len(asked)
      avg(dim) == RoundDiv(SumOver(asked, dim), count)
      pct == ToString(session.overallScore) \o "%"
      feedback ==
        IF session.passed
        THEN "Excellent performance! You scored " \o pct
               \o " and demonstrated good preparation for your immigration interview."
        ELSE IF session.overallScore >= 60
        THEN "Good effort! You scored " \o pct
               \o ". With some improvements, you'll be well prepared for your interview."
        ELSE "You scored " \o pct
               \o ". More practice is recommended before your actual interview."
      i1 == pushIf(avg("completeness") < 70, <<>>,
                   "Provide more complete answers with specific details.")
      i2 == pushIf(avg("clarity") < 70, i1,
                   "Be clearer and more direct in your responses.")
      i3 == pushIf(avg("relevance") < 70, i2,
                   "Make sure your answers directly address the questions asked.")
      i4 == pushIf(avg("confidence") < 70, i3,
                   "Speak with more confidence. Avoid filler words like \"maybe\" or \"I think\".")
      i5 == pushIf(avg("consistency") < 70, i4,
                   "Ensure your answers are consistent throughout the interview.")
      flaggedCount == Cardinality({ i \in DOMAIN asked : asked[i].flagged })
      i6 == pushIf(flaggedCount > 2, i5,
                   ToString(flaggedCount)
                     \o " of your answers raised potential concerns. Review these carefully.")
  IN [feedback |-> feedback, improvements |-> i6]

\* new Date().toISOString(): some timestamp, distinct from undefined
Timestamp == "<iso-timestamp>"

PassMark == 80

\* an endInterview that stamps the end time on every session it finds
endInterviewStart_StampsAll(sessionId) ==
    IF sessionId \notin active
    THEN /\ response' = [op |-> "endInterview", sid |-> sessionId, error |-> NotFound,
                         value |-> <<>>]
         /\ UNCHANGED <<limits, sessions, active, pendingEnds, saveCalls, endReturns>>
    ELSE LET session == sessions[sessionId].session
             asked == session.questionsAsked
             overallScore == IF Len(asked) > 0
                             THEN RoundDiv(SumOver(asked, "total"), Len(asked))
                             ELSE session.overallScore
             passed == overallScore >= PassMark
             scored == [session EXCEPT !.endTime = Timestamp,
                                       !.overallScore = overallScore,
                                       !.passed = passed]
             fb == generateFeedback(scored)
         IN /\ pendingEnds[sessionId] < limits.ends
            /\ sessions' = [x \in DOMAIN sessions |->
                              IF x = sessionId
                              THEN [sessions[x] EXCEPT !.session =
                                      [scored EXCEPT !.feedback = fb.feedback,
                                                     !.improvements = fb.improvements]]
                              ELSE [sessions[x] EXCEPT !.session.endTime = Timestamp]]
            /\ saveCalls' = [saveCalls EXCEPT ![sessionId] = @ + 1]
            /\ pendingEnds' = [pendingEnds EXCEPT ![sessionId] = @ + 1]
            /\ response' = [op |-> "endInterview.await", sid |-> sessionId,
                            error |-> Undefined, value |-> <<>>]
            /\ UNCHANGED <<limits, active, endReturns>>

\* endInterview up to its await: the session object is finalised and the
\* insert is issued; the entry stays in activeSessions
endInterviewStart(sessionId) ==
    IF sessionId \notin active
    THEN /\ response' = [op |-> "endInterview", sid |-> sessionId, error |-> NotFound,
                         value |-> <<>>]
         /\ UNCHANGED <<limits, sessions, active, pendingEnds, saveCalls, endReturns>>
    ELSE LET session == sessions[sessionId].session
             asked == session.questionsAsked
             overallScore == IF Len(asked) > 0
                             THEN RoundDiv(SumOver(asked, "total"), Len(asked))
                             ELSE session.overallScore
             passed == overallScore >= PassMark
             scored == [session EXCEPT !.endTime = Timestamp,
                                       !.overallScore = overallScore,
                                       !.passed = passed]
             fb == generateFeedback(scored)
         IN /\ pendingEnds[sessionId] < limits.ends
            /\ sessions' = [sessions EXCEPT ![sessionId].session =
                              [scored EXCEPT !.feedback = fb.feedback,
                                             !.improvements = fb.improvements]]
            /\ saveCalls' = [saveCalls EXCEPT ![sessionId] = @ + 1]
            /\ pendingEnds' = [pendingEnds EXCEPT ![sessionId] = @ + 1]
            /\ response' = [op |-> "endInterview.await", sid |-> sessionId,
                            error |-> Undefined, value |-> <<>>]
            /\ UNCHANGED <<limits, active, endReturns>>

EndInterviewStart ==
  /\ \E sessionId \in Issued \cup {UnknownId} : endInterviewStart(sessionId)
  /\ UNCHANGED <<scoreVars, questionVars, geminiVars, whatsappVars>>

\* what the insert awaited by saveSession does: succeeds, resolves with an
\* error object, or rejects; saveSession logs the last two and returns
DbOutcomes == {"ok", "error", "throw"}

\* a saveSession whose catch lets the rejection through
saveSession_Rethrows(db) ==
  CASE db = "ok" -> "saved"
    [] db = "error" -> "logged"
    [] db = "throw" -> "thrown"

\* saveSession once the insert has settled: an error object is logged, a
\* rejection is caught and logged; the method returns either way
saveSession(db) ==
  CASE db = "ok" -> "saved"
    [] db = "error" -> "logged"
    [] db = "throw" -> "logged"

\* an endInterview that returns without deleting the activeSessions entry
endInterviewFinish_KeepsEntry(sessionId, db) ==
    /\ pendingEnds[sessionId] > 0
    /\ pendingEnds' = [pendingEnds EXCEPT ![sessionId] = @ - 1]
    /\ endReturns' = [endReturns EXCEPT ![sessionId] = @ + 1]
    /\ response' = [op |-> "endInterview", sid |-> sessionId, error |-> Undefined,
                    value |-> sessions[sessionId].session, db |-> db]
    /\ UNCHANGED <<limits, sessions, active, saveCalls>>

\* endInterview from its await on: saveSession has settled, the entry is
\* deleted and the session object is returned; had saveSession thrown, the
\* call would reject there.  The response records what the insert did.
endInterviewFinish(sessionId, db) ==
    /\ pendingEnds[sessionId] > 0
    /\ pendingEnds' = [pendingEnds EXCEPT ![sessionId] = @ - 1]
    /\ IF saveSession(db) = "thrown"
       THEN /\ response' = [op |-> "endInterview", sid |-> sessionId,
                            error |-> "Database save failed", value |-> <<>>, db |-> db]
            /\ UNCHANGED <<limits, sessions, active, saveCalls, endReturns>>
       ELSE /\ active' = active \ {sessionId}
            /\ endReturns' = [endReturns EXCEPT ![sessionId] = @ + 1]
            /\ response' = [op |-> "endInterview", sid |-> sessionId, error |-> Undefined,
                            value |-> sessions[sessionId].session, db |-> db]
            /\ UNCHANGED <<limits, sessions, saveCalls>>

EndInterviewFinish ==
  /\ \E sessionId \in Issued : \E db \in DbOutcomes : endInterviewFinish(sessionId, db)
  /\ UNCHANGED <<scoreVars, questionVars, geminiVars, whatsappVars>>

RunIds == {1}
ConcIds == {1, 2}
RunSubmits == 11

RunLimits == [ids |-> RunIds, visas |-> VisaTypes, submits |-> RunSubmits,
              shuffles |-> 1, weak |-> MaxWeak, ends |-> 1,
              badVisas |-> {}, countries |-> {"SA"}]
ConcLimits == [ids |-> ConcIds, visas |-> {"tourist"}, submits |-> ConcSubmits,
               shuffles |-> MaxShuffles, weak |-> 1, ends |-> MaxPendingEnds,
               badVisas |-> {"diplomatic", ""}, countries |-> {"SA", ""}]

ScoreIdle ==
  /\ sQuestion = 0
  /\ sAnswer = ""
  /\ sVisa = ""
  /\ sPrev = EmptyMap
  /\ sResult = NoResult

InitSessions(lim) ==
  /\ ScoreIdle
  /\ QuestionsIdle
  /\ GeminiIdle
  /\ WhatsAppIdle
  /\ limits = lim
  /\ sessions = <<>>
  /\ active = {}
  /\ pendingEnds = <<>>
  /\ saveCalls = <<>>
  /\ endReturns = <<>>
  /\ response = NoResponse

Init == InitSessions(ConcLimits)

InitRun == InitSessions(RunLimits)

Next ==
  \/ StartInterview
  \/ PostStart
  \/ SubmitAnswer
  \/ EndInterviewStart
  \/ EndInterviewFinish

Spec == Init /\ [][Next]_vars

SpecRun == InitRun /\ [][Next]_vars

(***************************************************************************)
(* Claims about the session operations.                                    *)
(***************************************************************************)
\* the session returned by the endInterview call that has just completed
Returned == response.op = "endInterview" /\ response.error = Undefined

\* every question of the returned session was answered, each with a strong answer
AllStrong(session) ==
  /\ Len(session.questionsAsked) = session.totalQuestions
  /\ \A i \in DOMAIN session.questionsAsked :
       IsStrong(QuestionById(session.questionsAsked[i].questionId),
                session.questionsAsked[i].userAnswer)

\* C2 (as claimed): a session whose questions were all answered with uniformly
\* strong answers (longer than 50 characters, matching green flags, no red
\* flags) is returned by endInterview with overallScore >= 80 and passed = true.
C2_StrongSessionPasses ==
  (Returned /\ AllStrong(response.value)) =>
    /\ response.value.overallScore >= 80
    /\ response.value.passed

\* C7: a submitAnswer whose session id was never returned by startInterview,
\* or whose endInterview has already completed, fails with 'Session not found
\* or expired' and changes no session state.
C7_SubmitUnknownOrEndedFails ==
  [][ (/\ response'.op = "submitAnswer"
       /\ \/ response'.sid \notin Issued
          \/ endReturns[response'.sid] > 0)
      => /\ response'.error = "Session not found or expired"
         /\ UNCHANGED <<sessions, active, pendingEnds, saveCalls, endReturns>> ]_vars

\* C7 witness: a submitAnswer has just failed with not-found on a session that
\* recorded an answer and whose endInterview has returned
C7_Witness ==
  /\ response.op = "submitAnswer"
  /\ response.error = NotFound
  /\ response.sid \in Issued
  /\ endReturns[response.sid] > 0
  /\ Len(sessions[response.sid].session.questionsAsked) > 0

(***************************************************************************)
(* GeminiService (services/gemini.service.ts).  Times are in seconds.      *)
(* A value parsed from the model's JSON is a tagged record [t, v]; a       *)
(* parsed object is a record of such values, an absent key being           *)
(* undefined.  feedbackUrdu, factCheck, spellingErrors and                 *)
(* consistencyIssues are handled as feedback and flags are, and are left   *)
(* out of the evaluation records.                                          *)
(***************************************************************************)
FALLBACK_MODELS ==
  <<"gemini-2.0-flash-lite", "gemini-1.5-flash-latest", "gemini-1.5-flash", "gemini-pro">>

\* config.geminiModel when GEMINI_MODEL is not set
PrimaryModel == "gemini-2.0-flash"

\* the default maxRetries of callWithRetry
DefaultMaxRetries == 2
\* the cooldown after a rate-limit mark: Date.now() + 60000
CooldownSec == 60
\* the retry delay is Math.min(parsed, 30), or 5 * (attempt + 1)
MaxDelaySec == 30
BaseDelaySec == 5

Num(n) == [t |-> "number", v |-> n]
Str(x) == [t |-> "string", v |-> x]
Bool(b) == [t |-> "boolean", v |-> b]
Arr(a) == [t |-> "array", v |-> a]
Undef == [t |-> "undefined", v |-> 0]

\* parsed.key
Get(obj, key) == IF key \in DOMAIN obj THEN obj[key] ELSE Undef

\* JavaScript truthiness
Truthy(x) ==
  CASE x.t = "number" -> x.v # 0
    [] x.t = "string" -> x.v # ""
    [] x.t = "boolean" -> x.v
    [] x.t = "array" -> TRUE
    [] OTHER -> FALSE

\* a ?? b
Coalesce(a, b) == IF a.t = "undefined" THEN b ELSE a

\* a || b
OrElse(a, b) == IF Truthy(a) THEN a ELSE b

Null == "<null>"

\* text.match(/\{[\s\S]*\}/): from the first "{" to the last "}" after it
jsonMatch(text) ==
  LET opens == { i \in 1..Len(text) : CharAt(text, i) = "{" }
      closes == { i \in 1..Len(text) : CharAt(text, i) = "}" }
  IN IF opens = {} \/ closes = {} THEN Null
     ELSE LET a == CHOOSE i \in opens : \A j \in opens : i <= j
              b == CHOOSE i \in closes : \A j \in closes : i >= j
          IN IF b > a THEN SubSeq(text, a, b) ELSE Null

\* JSON.parse on the texts the model collaborator sends; any other text is a
\* SyntaxError
JSONparse(x) ==
  CASE x = "{\"score\": 85, \"feedback\": \"Good clear answer\"}" ->
         [ok |-> TRUE, obj |-> [score |-> Num(85), feedback |-> Str("Good clear answer")]]
    [] x = "{\"score\": 40, \"isValid\": false, \"flags\": [\"vague\"]}" ->
         [ok |-> TRUE, obj |-> [score |-> Num(40), isValid |-> Bool(FALSE),
                                flags |-> Arr(<<"vague">>)]]
    [] x = "{\"score\": 60, \"feedback\": 5}" ->
         [ok |-> TRUE, obj |-> [score |-> Num(60), feedback |-> Num(5)]]
    [] x = "{\"score\": 150, \"clarity\": 0}" ->
         [ok |-> TRUE, obj |-> [score |-> Num(150), clarity |-> Num(0)]]
    [] x = "{\"overallScore\": 72, \"feedback\": \"Adequate\"}" ->
         [ok |-> TRUE, obj |-> [overallScore |-> Num(72), feedback |-> Str("Adequate")]]
    [] x = "{\"overallScore\": 45, \"passed\": true}" ->
         [ok |-> TRUE, obj |-> [overallScore |-> Num(45), passed |-> Bool(TRUE)]]
    [] x = "{}" -> [ok |-> TRUE, obj |-> <<>>]
    [] OTHER -> [ok |-> FALSE, obj |-> <<>>]

\* a fallback evaluation without the '[No AI]' marker
getFallbackEvaluation_NoMarker(answer) ==
  LET length == Len(trim(answer))
      score == IF length > 50 THEN 70 ELSE IF length > 20 THEN 50 ELSE 30
  IN [score |-> score, completeness |-> score, clarity |-> score,
      relevance |-> score, confidence |-> score, consistency |-> score,
      isValid |-> length > 5,
      feedback |-> IF length > 20 THEN "Answer recorded. AI evaluation unavailable."
                   ELSE "Please provide more detail.",
      flags |-> IF length < 10 THEN <<"Answer too brief">> ELSE <<>>,
      suggestions |-> IF length < 20 THEN <<"Provide more specific details">> ELSE <<>>]

getFallbackEvaluation(answer) ==
  LET length == Len(trim(answer))
      score == IF length > 50 THEN 70 ELSE IF length > 20 THEN 50 ELSE 30
  IN [score |-> score, completeness |-> score, clarity |-> score,
      relevance |-> score, confidence |-> score, consistency |-> score,
      isValid |-> length > 5,
      feedback |-> IF length > 20
                   THEN "[No AI] Answer recorded. AI evaluation unavailable."
                   ELSE "[No AI] Please provide more detail.",
      flags |-> IF length < 10 THEN <<"Answer too brief">> ELSE <<>>,
      suggestions |-> IF length < 20 THEN <<"Provide more specific details">> ELSE <<>>]

\* parseEvaluationResponse; feedback stays tagged, the caller reads it next
parseEvaluationResponse(text, answer) ==
  LET m == jsonMatch(text)
      parsed == JSONparse(m).obj
      score == Get(parsed, "score")
      dim(key) == Coalesce(Get(parsed, key), Coalesce(score, Num(50))).v
  IN IF m # Null /\ JSONparse(m).ok
     THEN [score |-> Coalesce(score, Num(50)).v,
           completeness |-> dim("completeness"),
           clarity |-> dim("clarity"),
           relevance |-> dim("relevance"),
           confidence |-> dim("confidence"),
           consistency |-> dim("consistency"),
           isValid |-> ~(Get(parsed, "isValid").t = "boolean" /\ ~Get(parsed, "isValid").v),
           feedback |-> OrElse(Get(parsed, "feedback"), Str("Answer evaluated.")),
           flags |-> IF Get(parsed, "flags").t = "array"
                     THEN Get(parsed, "flags").v ELSE <<>>,
           suggestions |-> IF Get(parsed, "suggestions").t = "array"
                           THEN Get(parsed, "suggestions").v ELSE <<>>]
     ELSE [getFallbackEvaluation(answer) EXCEPT !.feedback = Str(@)]

\* evaluateAnswer once callWithRetry has returned text: an empty text falls
\* back; parsed.feedback.substring(0, 50) throws on a feedback that is not a
\* string, and the catch of evaluateAnswer falls back
evaluateText(text, answer) ==
  IF text = "" THEN getFallbackEvaluation(answer)
  ELSE LET parsed == parseEvaluationResponse(text, answer)
       IN IF parsed.feedback.t = "string"
          THEN [parsed EXCEPT !.feedback = @.v]
          ELSE getFallbackEvaluation(answer)

RECURSIVE SumLen(_)
SumLen(answers) ==
  IF answers = <<>> THEN 0 ELSE Len(Head(answers)) + SumLen(Tail(answers))

\* getFallbackAssessment; avgLength = sum / max(n, 1) is compared cross-multiplied
getFallbackAssessment(answers) ==
  LET n == Max(Len(answers), 1)
      sum == SumLen(answers)
      score == IF sum > 50 * n THEN 65 ELSE IF sum > 30 * n THEN 55 ELSE 45
  IN [overallScore |-> score,
      passed |-> score >= 60,
      feedback |-> "[No AI] Interview completed. AI evaluation was not available for this session.",
      improvements |-> <<"Provide more detailed answers",
                         "Be more specific about dates and names">>,
      strengths |-> <<"Completed all questions">>,
      concerns |-> IF sum < 30 * n THEN <<"Answers were too brief">> ELSE <<>>]

\* generateFinalAssessment once callWithRetry has returned text
assessText(text, answers) ==
  LET m == jsonMatch(text)
      parsed == JSONparse(m).obj
      overallScore == Get(parsed, "overallScore")
  IN IF text = "" \/ m = Null \/ ~JSONparse(m).ok
     THEN getFallbackAssessment(answers)
     ELSE [overallScore |-> OrElse(overallScore, Num(50)).v,
           passed |-> Coalesce(Get(parsed, "passed"),
                               Bool(overallScore.t = "number" /\ overallScore.v >= 60)).v,
           feedback |-> OrElse(Get(parsed, "feedback"), Str("Assessment complete.")).v,
           improvements |-> OrElse(Get(parsed, "improvements"), Arr(<<>>)).v,
           strengths |-> OrElse(Get(parsed, "strengths"), Arr(<<>>)).v,
           concerns |-> OrElse(Get(parsed, "concerns"), Arr(<<>>)).v]

\* the classification of an error message in the catch blocks
is429(msg) ==
  includes(msg, "429") \/ includes(msg, "quota") \/ includes(msg, "Too Many Requests")

\* msg.match(/retry in (\d+)/i): the digits captured, "" without a match
retryMatch(msg) ==
  LET low == toLowerCase(msg)
      pre == "retry in "
      hits == { i \in 1..Len(low) :
                  /\ i + Len(pre) <= Len(low)
                  /\ SubSeq(low, i, i + Len(pre) - 1) = pre
                  /\ IsDigit(CharAt(low, i + Len(pre))) }
  IN IF hits = {} THEN ""
     ELSE LET i == CHOOSE h \in hits : \A k \in hits : h <= k
          IN FirstDigitRun(SubSeq(low, i + Len(pre), Len(low)))

delaySec(msg, attempt) ==
  IF retryMatch(msg) # ""
  THEN Min(parseInt(retryMatch(msg)), MaxDelaySec)
  ELSE BaseDelaySec * (attempt + 1)

isAvailable == model # "null" \/ (genAI /\ modelName # "")

(***************************************************************************)
(* The calls of the gateway.  One evaluateAnswer or generateFinalAssessment *)
(* call is in flight at a time; it suspends at await generateContent and   *)
(* at await sleep.  verifyWithFallbacks, started by the constructor, runs  *)
(* beside it.  The model collaborator answers a generateContent with a     *)
(* text or an error, or not at all.  returned holds the outcome of a call  *)
(* until the next call begins.                                             *)
(***************************************************************************)
\* calls start while the clock is at most MaxTime; the clock ticks by TickSec
MaxTime == 70
TickSec == 35

EvalAnswers ==
  { "yes",
    "I will stay for two weeks",
    "My full name is Ahmed Ali Khan as it is written in my passport" }

AssessContexts ==
  { <<"yes", "I will stay for two weeks">>,
    <<"My full name is Ahmed Ali Khan as it is written in my passport">> }

\* what generateContent resolves to
ResponseTexts(op) ==
  IF op = "evaluateAnswer"
  THEN { "{\"score\": 85, \"feedback\": \"Good clear answer\"}",
         "Here is my evaluation: {\"score\": 40, \"isValid\": false, \"flags\": [\"vague\"]} Thanks",
         "{\"score\": 60, \"feedback\": 5}",
         "{\"score\": 150, \"clarity\": 0}",
         "{score: high}",
         "I cannot evaluate this answer.",
         "" }
  ELSE { "{\"overallScore\": 72, \"feedback\": \"Adequate\"}",
         "{\"overallScore\": 45, \"passed\": true}",
         "{}",
         "The interview went well.",
         "" }

\* the messages generateContent rejects with
ErrorMessages ==
  { "[429 Too Many Requests] Resource has been exhausted",
    "[429 Too Many Requests] You exceeded your current quota. Please retry in 45s",
    "[500 Internal Server Error] An internal error has occurred",
    "" }

\* not configured, or marked rate-limited with the cooldown still running
Unavailable == ~genAI \/ (rateLimited /\ now <= rateLimitResetTime)

\* the fallback of the operation
Fallback(c) ==
  IF c.op = "evaluateAnswer" THEN getFallbackEvaluation(c.answer)
  ELSE getFallbackAssessment(c.answers)

\* the call c returns value
Return(c, value) ==
  /\ returned' = [op |-> c.op, threw |-> FALSE, value |-> value,
                  answer |-> c.answer, answers |-> c.answers,
                  modelCalls |-> c.modelCalls,
                  unavailableAtStart |-> c.unavailableAtStart, said |-> c.said]
  /\ call' = NoCall

\* one turn of the loop of callWithRetry up to await generateContent; the
\* model object is re-created when it is missing
Attempt(c, attempt) ==
  LET m == IF model = "null" /\ genAI THEN modelName ELSE model
  IN /\ model' = m
     /\ IF m = "null"
        THEN Return(c, Fallback(c))
        ELSE /\ call' = [c EXCEPT !.pc = "generateContent", !.attempt = attempt,
                                  !.modelCalls = @ + 1]
             /\ returned' = NoReturn

\* evaluateAnswer / generateFinalAssessment from entry to the first await
Begin(op, answer, answers) ==
  LET c == [NoCall EXCEPT !.op = op, !.answer = answer, !.answers = answers,
                          !.unavailableAtStart = Unavailable]
  IN /\ call.pc = "idle"
     /\ now <= MaxTime
     /\ IF ~isAvailable
        THEN /\ Return(c, Fallback(c))
             /\ UNCHANGED <<serviceVars, now, verifying>>
        ELSE /\ rateLimited' = (rateLimited /\ ~(now > rateLimitResetTime))
             /\ Attempt(c, 0)
             /\ UNCHANGED <<genAI, modelName, verified, rateLimitResetTime, now, verifying>>

EvaluateAnswer ==
  /\ \E answer \in EvalAnswers : Begin("evaluateAnswer", answer, <<>>)
  /\ UNCHANGED <<scoreVars, questionVars, sessionVars, whatsappVars>>

GenerateFinalAssessment ==
  /\ \E answers \in AssessContexts : Begin("generateFinalAssessment", "", answers)
  /\ UNCHANGED <<scoreVars, questionVars, sessionVars, whatsappVars>>

\* what the model collaborator handed back, as far as a result can come of
\* it: an empty text, a text without parsable JSON, or a text with it; a
\* rejection is "rateLimit" or "error" by the class of its message
Said(text) ==
  IF text = "" THEN "empty"
  ELSE IF jsonMatch(text) # Null /\ JSONparse(jsonMatch(text)).ok THEN "json"
  ELSE "nojson"

\* a success path that leaves the rate-limit flag as it was
ModelText_KeepsMark(text) ==
  LET c == [call EXCEPT !.said = Said(text)]
  IN /\ Return(c, IF c.op = "evaluateAnswer" THEN evaluateText(text, c.answer)
                  ELSE assessText(text, c.answers))
     /\ UNCHANGED <<serviceVars, now, verifying>>

\* generateContent resolves with text: callWithRetry clears the rate-limit
\* flag and returns it, and the caller parses it
ModelText(text) ==
  LET c == [call EXCEPT !.said = Said(text)]
  IN /\ rateLimited' = FALSE
     /\ verified' = (rateLimited \/ verified)
     /\ Return(c, IF c.op = "evaluateAnswer" THEN evaluateText(text, c.answer)
                  ELSE assessText(text, c.answers))
     /\ UNCHANGED <<genAI, model, modelName, rateLimitResetTime, now, verifying>>

\* a catch block that sleeps and retries whatever the error, while attempts
\* remain
ModelError_RetriesAnyError(msg) ==
  LET c == [call EXCEPT !.said = IF is429(msg) THEN "rateLimit" ELSE "error"]
  IN IF c.attempt < DefaultMaxRetries
     THEN /\ call' = [c EXCEPT !.pc = "sleep", !.wakeAt = now + delaySec(msg, c.attempt)]
          /\ UNCHANGED <<serviceVars, now, verifying, returned>>
     ELSE /\ rateLimited' = (is429(msg) \/ rateLimited)
          /\ rateLimitResetTime' = IF is429(msg) THEN now + CooldownSec
                                   ELSE rateLimitResetTime
          /\ Return(c, Fallback(c))
          /\ UNCHANGED <<genAI, model, modelName, verified, now, verifying>>

\* generateContent rejects: callWithRetry sleeps and retries a rate-limit
\* error while attempts remain; otherwise it rethrows, after marking the
\* service rate-limited on a rate-limit error, and the caller falls back
ModelError(msg) ==
  LET c == [call EXCEPT !.said = IF is429(msg) THEN "rateLimit" ELSE "error"]
  IN IF is429(msg) /\ c.attempt < DefaultMaxRetries
     THEN /\ call' = [c EXCEPT !.pc = "sleep", !.wakeAt = now + delaySec(msg, c.attempt)]
          /\ UNCHANGED <<serviceVars, now, verifying, returned>>
     ELSE /\ rateLimited' = (is429(msg) \/ rateLimited)
          /\ rateLimitResetTime' = IF is429(msg) THEN now + CooldownSec
                                   ELSE rateLimitResetTime
          /\ Return(c, Fallback(c))
          /\ UNCHANGED <<genAI, model, modelName, verified, now, verifying>>

ModelRespond ==
  /\ call.pc = "generateContent"
  /\ \/ \E text \in ResponseTexts(call.op) : ModelText(text)
     \/ \E msg \in ErrorMessages : ModelError(msg)
  /\ UNCHANGED <<scoreVars, questionVars, sessionVars, whatsappVars>>

\* the timer of sleep fires, at wakeAt or later, and the loop goes round
SleepDone ==
  /\ call.pc = "sleep"
  /\ now >= call.wakeAt
  /\ Attempt(call, call.attempt + 1)
  /\ UNCHANGED <<genAI, modelName, verified, rateLimited, rateLimitResetTime, now,
                 verifying>>
  /\ UNCHANGED <<scoreVars, questionVars, sessionVars, whatsappVars>>

\* the models verifyWithFallbacks tests, in order
VerifyCandidates ==
  <<modelName>> \o SelectSeq(FALLBACK_MODELS, LAMBDA m : m # modelName)

VerifyOutcomes == {"ok", "429", "404"}

\* tryVerifyModel(VerifyCandidates[verifying]) settles
tryVerifyModel(outcome) ==
  LET next == IF verifying < Len(VerifyCandidates) THEN verifying + 1 ELSE 0
  IN /\ verifying > 0
     /\ IF outcome = "ok"
        THEN /\ model' = VerifyCandidates[verifying]
             /\ modelName' = VerifyCandidates[verifying]
             /\ verified' = TRUE
             /\ rateLimited' = FALSE
             /\ verifying' = 0
             /\ UNCHANGED rateLimitResetTime
        ELSE /\ rateLimited' = (outcome = "429" \/ rateLimited)
             /\ rateLimitResetTime' = IF outcome = "429" THEN now + CooldownSec
                                      ELSE rateLimitResetTime
             /\ verifying' = next
             /\ UNCHANGED <<model, modelName, verified>>
     /\ UNCHANGED <<genAI, now, call, returned>>

VerifyStep ==
  /\ \E outcome \in VerifyOutcomes : tryVerifyModel(outcome)
  /\ UNCHANGED <<scoreVars, questionVars, sessionVars, whatsappVars>>

Tick ==
  /\ now < MaxTime \/ (call.pc = "sleep" /\ now < call.wakeAt)
  /\ now' = now + TickSec
  /\ UNCHANGED <<serviceVars, verifying, call, returned>>
  /\ UNCHANGED <<scoreVars, questionVars, sessionVars, whatsappVars>>

\* the constructor: a key longer than 10 characters creates the client and
\* the model object and starts verifyWithFallbacks
constructor(keyLength) ==
  /\ genAI = (keyLength > 10)
  /\ model = IF keyLength > 10 THEN PrimaryModel ELSE "null"
  /\ modelName = IF keyLength > 10 THEN PrimaryModel ELSE ""
  /\ verified = FALSE
  /\ rateLimited = FALSE
  /\ rateLimitResetTime = 0
  /\ verifying = IF keyLength > 10 THEN 1 ELSE 0

KeyLengths == {0, 39}

InitGemini ==
  /\ ScoreIdle
  /\ QuestionsIdle
  /\ SessionsIdle
  /\ WhatsAppIdle
  /\ \E keyLength \in KeyLengths : constructor(keyLength)
  /\ now = 0
  /\ call = NoCall
  /\ returned = NoReturn

NextGemini ==
  \/ EvaluateAnswer
  \/ GenerateFinalAssessment
  \/ ModelRespond
  \/ SleepDone
  \/ VerifyStep
  \/ Tick

SpecGemini == InitGemini /\ [][NextGemini]_vars

\* time passes and timers fire; the model collaborator owes no response
FairGemini == SpecGemini /\ WF_vars(Tick) /\ WF_vars(SleepDone)

(***************************************************************************)
(* Claims about the Gemini gateway.                                        *)
(***************************************************************************)
ScoreFields == {"score", "completeness", "clarity", "relevance", "confidence", "consistency"}

\* value has the shape of an AnswerEvaluation
IsAnswerEvaluation(value) ==
  /\ DOMAIN value = ScoreFields \cup {"isValid", "feedback", "flags", "suggestions"}
  /\ \A f \in ScoreFields : value[f] \in Int
  /\ value.isValid \in BOOLEAN

NoAIMarker == "[No AI]"

\* the text begins with the marker
Marked(text) ==
  Len(text) >= Len(NoAIMarker) /\ SubSeq(text, 1, Len(NoAIMarker)) = NoAIMarker

\* what the model collaborator did gave no result: it was not called, it
\* failed, or it sent an empty text or a text without parsable JSON
NoAIResult(said) == said \in {"none", "error", "rateLimit", "empty", "nojson"}

\* C8: evaluateAnswer returns an AnswerEvaluation and never throws, whatever
\* the model collaborator did; whenever the AI call did not produce the
\* result, the evaluation returned is the length-based fallback and its
\* feedback carries the '[No AI]' marker.
C8_EvaluateReturnsMarkedFallback ==
  returned.op = "evaluateAnswer" =>
    /\ ~returned.threw
    /\ IsAnswerEvaluation(returned.value)
    /\ NoAIResult(returned.said) =>
         /\ returned.value = getFallbackEvaluation(returned.answer)
         /\ Marked(returned.value.feedback)

\* C8 witness: evaluateAnswer has returned the marked fallback after the
\* model collaborator answered all three attempts with a rate-limit error
C8_Witness ==
  /\ returned.op = "evaluateAnswer"
  /\ returned.said = "error"
  /\ returned.modelCalls = DefaultMaxRetries + 1
  /\ rateLimited
  /\ Marked(returned.value.feedback)

\* C9 (as claimed): an evaluateAnswer call that begins while the collaborator
\* is not configured, or is marked rate-limited with its cooldown still
\* running, makes no call to the model and returns the fallback evaluation.
C9_UnavailableMakesNoModelCall ==
  /\ (call.op = "evaluateAnswer" /\ call.unavailableAtStart) => call.modelCalls = 0
  /\ (returned.op = "evaluateAnswer" /\ returned.unavailableAtStart) =>
       /\ returned.modelCalls = 0
       /\ returned.value = getFallbackEvaluation(returned.answer)

\* C10 (as claimed): every evaluateAnswer and generateFinalAssessment call
\* eventually returns, whatever the model collaborator does.
C10_CallEventuallyReturns == (call.pc # "idle") ~> (call.pc = "idle")

(***************************************************************************)
(* Further claims about the session operations.                            *)
(***************************************************************************)
\* a suspended endInterview resumes once the insert settles; the service
\* has no timer and no other background step
FairSessions == Spec /\ WF_vars(EndInterviewFinish)

\* C11 (as claimed): a session that was started and then receives no further
\* calls is eventually removed from the active-session map by a background
\* inactivity sweep.
C11_AbandonedSessionRemoved ==
  \A sid \in ConcIds : (sid \in active) ~> (sid \notin active)

\* endInterview has just finalised the session response.sid and is suspended
\* at its await
JustEnded == response.op = "endInterview.await"

EndedSession == sessions[response.sid].session

\* score is sum / n rounded to the nearest integer, halves up
IsRoundedMean(score, sum, n) ==
  /\ 2 * n * score - n <= 2 * sum
  /\ 2 * sum < 2 * n * score + n

\* C12: endInterview on an active session sets overallScore to the rounded
\* mean of the per-question totals, or 0 when no answer was recorded, and
\* sets passed to true exactly when overallScore >= 80.
C12_OverallScoreIsRoundedMean ==
  JustEnded =>
    LET asked == EndedSession.questionsAsked
    IN /\ EndedSession.endTime # Undefined
       /\ IF Len(asked) = 0
          THEN EndedSession.overallScore = 0
          ELSE IsRoundedMean(EndedSession.overallScore, SumOver(asked, "total"), Len(asked))
       /\ EndedSession.passed = (EndedSession.overallScore >= 80)

\* C12 witness: endInterview has finalised a session of several answers whose
\* mean total is not a whole number
C12_Witness ==
  /\ JustEnded
  /\ Len(EndedSession.questionsAsked) >= 2
  /\ SumOver(EndedSession.questionsAsked, "total") % Len(EndedSession.questionsAsked) # 0
  /\ EndedSession.overallScore > 0

(***************************************************************************)
(* getQuestionsForVisaType as a function of its arguments: one call with   *)
(* a visa type, a count of 0..MaxCount and a shuffle order.                *)
(***************************************************************************)
MaxCount == 12

InitQuestions ==
  /\ ScoreIdle
  /\ SessionsIdle
  /\ GeminiIdle
  /\ WhatsAppIdle
  /\ qVisa \in VisaTypes
  /\ qCount \in 0..MaxCount
  /\ qOrder \in ShuffleOrders
  /\ qResult = NoQuestions

QuestionsCall ==
  /\ ~qResult.called
  /\ qResult' = [called |-> TRUE,
                 questions |-> getQuestionsForVisaType(qVisa, qCount, qOrder)]
  /\ UNCHANGED <<qVisa, qCount, qOrder>>
  /\ UNCHANGED <<scoreVars, sessionVars, geminiVars, whatsappVars>>

NextQuestions == QuestionsCall

SpecQuestions == InitQuestions /\ [][NextQuestions]_vars

\* the returned questions of the given category
ReturnedOf(category) ==
  { i \in DOMAIN qResult.questions :
      QuestionById(qResult.questions[i]).category = category }

\* C13: for every visa type v and every count c (a natural number),
\* getQuestionsForVisaType(v, c) returns at most c questions, at most 6 of
\* them universal and at most 4 visa-specific, at most 10 in all, and each
\* returned question has visaTypes 'all' or containing v.
C13_QuestionsBoundedAndForVisa ==
  qResult.called =>
    /\ Len(qResult.questions) <= qCount
    /\ Cardinality(ReturnedOf("universal")) <= 6
    /\ Cardinality(ReturnedOf("visa_specific")) <= 4
    /\ Len(qResult.questions) <= 10
    /\ \A i \in DOMAIN qResult.questions :
         LET q == QuestionById(qResult.questions[i])
         IN q.visaTypes = <<"all">> \/ qVisa \in Range(q.visaTypes)

\* C13 witness: getQuestionsForVisaType('work', 10) has returned 6 universal
\* and 4 visa-specific questions
C13_Witness ==
  /\ qResult.called
  /\ qVisa = "work"
  /\ qCount = 10
  /\ Cardinality(ReturnedOf("universal")) = 6
  /\ Cardinality(ReturnedOf("visa_specific")) = 4

\* the request of the last POST /start is not acceptable
InvalidStart(req) ==
  \/ req.visaType \notin {"tourist", "visit", "family", "work", "student", "business"}
  \/ req.destinationCountry = ""

\* C14: a start request whose visaType is not one of the six visa types, or
\* whose destination country is missing, is rejected with an error before
\* any state is created: no session is added to the active-session map.
C14_InvalidStartRejected ==
  [][ (response'.op = "POST /start" /\ InvalidStart(response'.value)) =>
        /\ response'.error # Undefined
        /\ response'.value.status = 400
        /\ UNCHANGED <<sessions, active, pendingEnds, saveCalls, endReturns>> ]_vars

\* C14 witness: beside a session already in the map, a start request with an
\* unknown visa type has just been rejected
C14_Witness ==
  /\ response.op = "POST /start"
  /\ response.value.visaType = "diplomatic"
  /\ response.value.destinationCountry = "SA"
  /\ response.error # Undefined
  /\ active # {}

\* C15 (as claimed): once endInterview has set a session's end time, its
\* ordered answer list, overall score and pass flag never change again,
\* under any interleaving of submitAnswer and endInterview calls for it.
C15_EndedSessionIsTerminal ==
  [][ \A sid \in Issued :
        sessions[sid].session.endTime # Undefined =>
          /\ sessions'[sid].session.questionsAsked = sessions[sid].session.questionsAsked
          /\ sessions'[sid].session.overallScore = sessions[sid].session.overallScore
          /\ sessions'[sid].session.passed = sessions[sid].session.passed ]_vars

\* C16 (as claimed): a submitAnswer call on a session id present in the
\* active-session map returns a scored result; the only error submitAnswer
\* ever raises is the not-found/expired lookup error.
C16_SubmitOnlyFailsNotFound ==
  response.op = "submitAnswer" =>
    \/ response.error = Undefined /\ response.value.scores.total \in 0..100
    \/ response.error = "Session not found or expired" /\ response.sid \notin active

\* C17: if the persistence insert returns an error or throws, endInterview
\* still returns the completed session with its computed score and pass
\* flag and removes the session from the active-session map; the persistence
\* failure is not propagated to the caller.
C17_PersistenceFailureNotPropagated ==
  (response.op = "endInterview" /\ "db" \in DOMAIN response
     /\ response.db \in {"error", "throw"}) =>
    /\ response.error = Undefined
    /\ response.value.endTime # Undefined
    /\ response.value.overallScore \in 0..100
    /\ response.value.passed = (response.value.overallScore >= 80)
    /\ response.value = sessions[response.sid].session
    /\ response.sid \notin active

\* C17 witness: endInterview has returned a session with recorded answers
\* although the insert was rejected
C17_Witness ==
  /\ response.op = "endInterview"
  /\ "db" \in DOMAIN response
  /\ response.db = "throw"
  /\ response.error = Undefined
  /\ Len(response.value.questionsAsked) > 0
  /\ response.value.overallScore > 0

(***************************************************************************)
(* Further claims about the rule-based scorer (SpecScore).                 *)
(***************************************************************************)
\* the hedging phrases of the fixed list that occur in the answer
HedgesIn(answer) ==
  { i \in DOMAIN LOW_CONFIDENCE_PATTERNS : includes(answer, LOW_CONFIDENCE_PATTERNS[i]) }

\* the answer states a duration in years: a numeral of at least 1, and "year"
StatesYears(answer) ==
  /\ FirstDigitRun(answer) # ""
  /\ parseInt(FirstDigitRun(answer)) >= 1
  /\ includes(answer, "year")

Retried == call.modelCalls >= 1 /\ call'.modelCalls > call.modelCalls

\* C19: one callWithRetry invocation calls the model at most 3 times (one
\* attempt and at most DefaultMaxRetries retries); a retry is made only
\* after an attempt failed with a rate-limit-class error (429, quota, Too
\* Many Requests); an error of any other class ends the invocation at the
\* attempt it struck, with no retry, and the caller falls back.
C19_BoundedRetriesOnRateLimitOnly ==
  [][/\ call'.modelCalls <= DefaultMaxRetries + 1
     /\ returned'.modelCalls <= DefaultMaxRetries + 1
     /\ Retried => (call.pc = "sleep" /\ call.said = "rateLimit")
     /\ (call.pc = "generateContent" /\ call'.pc = "sleep") => call'.said = "rateLimit"
     /\ (call.pc = "generateContent" /\ returned'.said = "error") =>
          /\ call' = NoCall
          /\ returned'.modelCalls = call.attempt + 1
          /\ returned'.value = Fallback(call)]_vars

\* C19 witness: an invocation made three model calls, the last after a
\* rate-limit error, and ended on an error of another class
C19_Witness ==
  /\ returned.op = "evaluateAnswer"
  /\ returned.modelCalls = DefaultMaxRetries + 1
  /\ returned.said = "error"
  /\ returned.value = getFallbackEvaluation(returned.answer)

\* C20: when the last attempt of an invocation fails with a rate-limit error
\* too, the service is left marked rate-limited with the reset time
\* CooldownSec (60 s) ahead of the clock, and evaluateAnswer returns the
\* fallback evaluation; a call whose generateContent succeeds leaves the
\* mark cleared.
C20_ExhaustedMarksSuccessClears ==
  [][/\ (call.pc = "generateContent" /\ call.attempt = DefaultMaxRetries
           /\ returned'.said = "rateLimit") =>
          /\ rateLimited'
          /\ rateLimitResetTime' = now + CooldownSec
          /\ call' = NoCall
          /\ returned'.modelCalls = DefaultMaxRetries + 1
          /\ (call.op = "evaluateAnswer" =>
                returned'.value = getFallbackEvaluation(call.answer))
     /\ (call.pc = "generateContent" /\ returned'.said \in {"json", "nojson", "empty"}) =>
          ~rateLimited']_vars

\* C20 witness: evaluateAnswer has returned the fallback after three
\* rate-limit errors, and the service is marked with the reset 60 s ahead
C20_Witness ==
  /\ returned.op = "evaluateAnswer"
  /\ returned.said = "rateLimit"
  /\ returned.modelCalls = DefaultMaxRetries + 1
  /\ returned.value = getFallbackEvaluation(returned.answer)
  /\ rateLimited
  /\ rateLimitResetTime = now + CooldownSec

(***************************************************************************)
(* Further claims about the session operations.                            *)
(***************************************************************************)
\* the step is a submitAnswer call that returned a result
SubmitSucceeded == response'.op = "submitAnswer" /\ response'.error = Undefined

\* C21: in every session the number of recorded answers equals the question
\* cursor and the size of the previous-answers map, and is at most
\* totalQuestions; each successful submitAnswer appends exactly one record,
\* for the question at the cursor, stores the lower-cased answer under that
\* question's id, advances the cursor by one, reports isComplete exactly
\* when the new cursor equals the number of questions, and otherwise returns
\* the question at the new cursor as nextQuestion.
C21_SubmitRecordsAndAdvances ==
  /\ [](\A sid \in Issued :
          LET a == sessions[sid]
          IN /\ Len(a.session.questionsAsked) = a.currentIndex
             /\ Cardinality(DOMAIN a.previousAnswers) = a.currentIndex
             /\ a.currentIndex <= a.session.totalQuestions)
  /\ [][SubmitSucceeded =>
          LET sid == response'.sid
              before == sessions[sid]
              after == sessions'[sid]
              asked == after.session.questionsAsked
              q == QuestionById(before.questions[before.currentIndex + 1])
              r == response'.value
          IN /\ Len(asked) = Len(before.session.questionsAsked) + 1
             /\ SubSeq(asked, 1, Len(asked) - 1) = before.session.questionsAsked
             /\ asked[Len(asked)].questionId = q.id
             /\ q.id \in DOMAIN after.previousAnswers
             /\ after.previousAnswers[q.id] = toLowerCase(asked[Len(asked)].userAnswer)
             /\ after.currentIndex = before.currentIndex + 1
             /\ r.questionNumber = after.currentIndex
             /\ r.isComplete = (after.currentIndex = Len(after.questions))
             /\ (~r.isComplete =>
                   r.nextQuestion = after.questions[after.currentIndex + 1])
             /\ (r.isComplete => r.nextQuestion = Undefined)]_vars

\* C21 witness: the tenth answer of a session was accepted; the call
\* reported completion and ten answers are recorded
C21_Witness ==
  /\ response.op = "submitAnswer"
  /\ response.error = Undefined
  /\ response.value.isComplete
  /\ sessions[response.sid].currentIndex = 10
  /\ Len(sessions[response.sid].session.questionsAsked) = 10
  /\ Cardinality(DOMAIN sessions[response.sid].previousAnswers) = 10
\* the step is a submitAnswer or an endInterview step for session id sid
ActsOn(sid) ==
  /\ response'.op \in {"submitAnswer", "endInterview.await", "endInterview"}
  /\ response'.sid = sid

\* C22: a submitAnswer or endInterview step for session A leaves every other
\* session B as it was: B's question list, cursor, recorded answers and
\* previous-answers map are unchanged, and B is in the activeSessions map
\* after the step exactly if it was before, whatever the interleaving.
C22_OtherSessionsUntouched ==
  [][\A a \in Issued \cup {UnknownId} :
       ActsOn(a) =>
         \A b \in Issued \ {a} :
           /\ sessions'[b] = sessions[b]
           /\ (b \in active') = (b \in active)]_vars

\* C22 witness: session 1 has just taken an answer while session 2, which is
\* active with one recorded answer of its own, waits in an endInterview
C22_Witness ==
  /\ response.op = "submitAnswer"
  /\ response.error = Undefined
  /\ response.sid = 1
  /\ 2 \in active
  /\ sessions[2].currentIndex = 1
  /\ Len(sessions[2].session.questionsAsked) = 1
  /\ pendingEnds[2] > 0
\* the answer indicates a permanent stay
IndicatesPermanence(answer) ==
  includes(answer, "forever") \/ includes(answer, "permanent") \/ includes(answer, "settle")

\* C23: on a duration-type question, for every visa type, an answer that
\* contains "forever", "permanent" or "settle", with or without digits, is
\* flagged and receives the relevance adjustment of the permanence check
\* (-40).
C23_PermanenceAlwaysFlagged ==
  (/\ Scored
   /\ sQ.expectedAnswerType = "duration"
   /\ IndicatesPermanence(sAnswerLower)) =>
    /\ sResult.flagged
    /\ checkDuration(sAnswerLower, sVisa).adjustment = -40
\* the unit words an answer names
UnitWords(answer) == { u \in {"day", "week", "month", "year"} : includes(answer, u) }

\* the expected range of the visa type, in days
ExpectedDays(visaType) ==
  LET e == DURATION_EXPECTATIONS[visaType]
      factor == IF e.unit = "years" THEN 365 ELSE IF e.unit = "months" THEN 30 ELSE 1
  IN [min |-> e.min * factor, max |-> e.max * factor]

\* C24: for every visa type, a duration answer whose stated duration (its
\* first integer, in the one unit word it names: day, week, month or year)
\* lies within the visa type's expected range of DURATION_EXPECTATIONS, and
\* which does not indicate a permanent stay, receives the positive relevance
\* adjustment of the duration check (+20) and is not flagged by it.
C24_InRangeDurationRewarded ==
  (/\ Scored
   /\ sQ.expectedAnswerType = "duration"
   /\ FirstDigitRun(sAnswerLower) # ""
   /\ Cardinality(UnitWords(sAnswerLower)) = 1
   /\ ~IndicatesPermanence(sAnswerLower)
   /\ StatedDays(sAnswerLower) >= ExpectedDays(sVisa).min
   /\ StatedDays(sAnswerLower) <= ExpectedDays(sVisa).max) =>
    /\ checkDuration(sAnswerLower, sVisa).adjustment = 20
    /\ ~checkDuration(sAnswerLower, sVisa).flagged
\* the red-flag phrases of the question that occur in the answer
MatchedRedFlags == filterIncluded(sQ.redFlags, sAnswerLower)

\* C25: whenever the answer contains at least one red-flag phrase of the
\* question, the result of the scorer is flagged and its flagReason names
\* the matched red-flag phrases.
C25_RedFlagsNamedInReason ==
  (Scored /\ MatchedRedFlags # <<>>) =>
    /\ sResult.flagged
    /\ sResult.flagReason = "Concerning response detected: " \o join(MatchedRedFlags, ", ")
(***************************************************************************)
(* Further claims about the Gemini gateway (SpecGemini).                   *)
(***************************************************************************)
AssessmentPassMark == 60

\* the result of the generateFinalAssessment call that has returned
Assessed == returned.op = "generateFinalAssessment"

\* the band of the fallback score: 65, 55 or 45 by the average answer length
\* (> 50, > 30, otherwise), the average being sum / max(n, 1)
LengthBand(answers) ==
  LET n == IF Len(answers) = 0 THEN 1 ELSE Len(answers)
      sum == SumLen(answers)
  IN IF sum > 50 * n THEN 65 ELSE IF sum > 30 * n THEN 55 ELSE 45

\* C26: every result of generateFinalAssessment, from the model or from the
\* fallback, has passed = (overallScore >= 60); a fallback result has
\* overallScore 65, 55 or 45 by the average answer length.
C26_AssessmentPassedIffSixty ==
  Assessed =>
    /\ returned.value.passed = (returned.value.overallScore >= AssessmentPassMark)
    /\ (returned.said # "json" =>
          returned.value.overallScore = LengthBand(returned.answers))
(***************************************************************************)
(* Claims about the questions of a session and about persistence.          *)
(***************************************************************************)
\* the visa-specific questions of the type that have fewer than four
\* visa-specific questions of the type before them in the bank
FirstFourSpecific(visaType) ==
  { INTERVIEW_QUESTIONS[i].id : i \in
      { i \in QuestionIndex :
          /\ INTERVIEW_QUESTIONS[i].category = "visa_specific"
          /\ visaType \in Range(INTERVIEW_QUESTIONS[i].visaTypes)
          /\ Cardinality({ j \in 1..(i - 1) :
                             /\ INTERVIEW_QUESTIONS[j].category = "visa_specific"
                             /\ visaType \in Range(INTERVIEW_QUESTIONS[j].visaTypes) }) < 4 } }

\* C27: for every visa type, every session that was created has exactly 10
\* distinct questions and totalQuestions = 10: the universal questions u1 to
\* u6 and the first four visa-specific questions of its type, in some order;
\* the universal questions u7 to u10 are in no session.
C27_SessionHasFixedTenQuestions ==
  \A sid \in Issued :
    LET a == sessions[sid]
        ids == Range(a.questions)
    IN /\ Len(a.questions) = 10
       /\ a.session.totalQuestions = 10
       /\ Cardinality(ids) = 10
       /\ Cardinality(FirstFourSpecific(a.session.visaType)) = 4
       /\ ids = {"u1", "u2", "u3", "u4", "u5", "u6"}
                  \cup FirstFourSpecific(a.session.visaType)
       /\ ids \cap {"u7", "u8", "u9", "u10"} = {}

\* C27 witness: a work-visa session was started and its first question returned
C27_Witness ==
  /\ response.op = "startInterview"
  /\ response.sid \in Issued
  /\ sessions[response.sid].session.visaType = "work"
  /\ response.value.totalQuestions = 10
  /\ response.value.firstQuestion \in Range(sessions[response.sid].questions)
\* C28: each session is handed to the persistence collaborator (the insert
\* of saveSession) at most once, and endInterview returns successfully at
\* most once per session id, under any interleaving of endInterview calls
\* for the same id.
C28_SavedAndEndedAtMostOnce ==
  \A sid \in Issued :
    /\ saveCalls[sid] <= 1
    /\ endReturns[sid] <= 1
\* C29: every AnswerEvaluation returned by evaluateAnswer has its score and
\* its five sub-scores within 0..100, whatever text the model returned.
C29_EvaluationScoresInRange ==
  returned.op = "evaluateAnswer" =>
    \A f \in ScoreFields : returned.value[f] \in 0..100
(***************************************************************************)
(* The WhatsApp webhook (routes/whatsapp.routes.ts), for one user.  Each   *)
(* POST /webhook is answered at once and its messages are then handled;    *)
(* the handlers of different POSTs interleave at their awaits.  The user's *)
(* session object is shared by all of them.  session.documents refers to   *)
(* an array object: handleImageMessage and handleDocumentMessage push to   *)
(* the array it refers to at that moment, the 'done' branch of             *)
(* handleTextMessage hands the array to validationService.validate, whose  *)
(* processDocuments iterates over it with for..of (elements pushed while   *)
(* the loop runs are visited), and afterwards replaces it by a new empty   *)
(* array.  Documents are numbered; media message d carries document d.     *)
(***************************************************************************)
Countries == {"SA"}

\* handleTextMessage, country selection: session.country is set before the
\* first await of the branch
handleCountryText(country) ==
  /\ wCountry' = country
  /\ UNCHANGED <<wArrays, wCurrent, wMedia, wRuns, wProcessed>>

HandleCountryText ==
  /\ \E country \in Countries : handleCountryText(country)
  /\ UNCHANGED <<scoreVars, questionVars, sessionVars, geminiVars>>

\* handleImageMessage / handleDocumentMessage up to await getMediaUrl:
\* without a country the message is refused
handleMediaMessage(d) ==
  /\ wMedia[d] = "unsent"
  /\ wMedia' = [wMedia EXCEPT ![d] = IF wCountry = "null" THEN "refused"
                                      ELSE "downloading"]
  /\ UNCHANGED <<wCountry, wArrays, wCurrent, wRuns, wProcessed>>

HandleMediaMessage ==
  /\ \E d \in DocIds : handleMediaMessage(d)
  /\ UNCHANGED <<scoreVars, questionVars, sessionVars, geminiVars>>

\* the download settles: the document is pushed to session.documents and
\* acknowledged as received, or the handler reports that it could not be
\* processed
mediaDownloaded(d, ok) ==
  /\ wMedia[d] = "downloading"
  /\ IF ok
     THEN /\ wArrays' = [wArrays EXCEPT ![wCurrent] = Append(@, d)]
          /\ wMedia' = [wMedia EXCEPT ![d] = "received"]
     ELSE /\ wMedia' = [wMedia EXCEPT ![d] = "failed"]
          /\ UNCHANGED wArrays
  /\ UNCHANGED <<wCountry, wCurrent, wRuns, wProcessed>>

MediaDownloaded ==
  /\ \E d \in DocIds : \E ok \in BOOLEAN : mediaDownloaded(d, ok)
  /\ UNCHANGED <<scoreVars, questionVars, sessionVars, geminiVars>>

\* handleTextMessage for 'done' up to its first await: without a country the
\* user is asked for one, without documents warned; otherwise the
\* "Validating..." message is sent
handleDoneText(r) ==
  /\ wRuns[r].pc = "unsent"
  /\ wRuns' = [wRuns EXCEPT ![r].pc =
                 IF wCountry = "null" \/ Len(wArrays[wCurrent]) = 0
                 THEN "refused" ELSE "notifying"]
  /\ UNCHANGED <<wCountry, wArrays, wCurrent, wMedia, wProcessed>>

HandleDoneText ==
  /\ \E r \in DoneIds : handleDoneText(r)
  /\ UNCHANGED <<scoreVars, questionVars, sessionVars, geminiVars>>

\* validationService.validate(session.country, ..., session.documents, from)
\* is called once the message is sent: the arguments are read now
validate(r) ==
  /\ wRuns[r].pc = "notifying"
  /\ wRuns' = [wRuns EXCEPT ![r] = [pc |-> "processing", array |-> wCurrent, index |-> 0,
                                    startCountry |-> wCountry,
                                    startLen |-> Len(wArrays[wCurrent])]]
  /\ UNCHANGED <<wCountry, wArrays, wCurrent, wMedia, wProcessed>>

Validate ==
  /\ \E r \in DoneIds : validate(r)
  /\ UNCHANGED <<scoreVars, questionVars, sessionVars, geminiVars>>

\* one turn of for (const doc of documents) in processDocuments: the next
\* element is processed, or the array is exhausted and the loop ends
processDocuments(r) ==
  LET run == wRuns[r]
  IN /\ run.pc = "processing"
     /\ IF run.index < Len(wArrays[run.array])
        THEN /\ wProcessed' = wProcessed \cup {wArrays[run.array][run.index + 1]}
             /\ wRuns' = [wRuns EXCEPT ![r].index = @ + 1]
        ELSE /\ wRuns' = [wRuns EXCEPT ![r].pc = "responding"]
             /\ UNCHANGED wProcessed
     /\ UNCHANGED <<wCountry, wArrays, wCurrent, wMedia>>

ProcessDocuments ==
  /\ \E r \in DoneIds : processDocuments(r)
  /\ UNCHANGED <<scoreVars, questionVars, sessionVars, geminiVars>>

\* the rest of the try block settles: after the result is sent,
\* session.documents = [] ; when something threw, the catch reports it and
\* the documents stay
validationSettles(r, ok) ==
  /\ wRuns[r].pc = "responding"
  /\ IF ok
     THEN /\ wArrays' = Append(wArrays, <<>>)
          /\ wCurrent' = Len(wArrays) + 1
          /\ wRuns' = [wRuns EXCEPT ![r].pc = "cleared"]
     ELSE /\ wRuns' = [wRuns EXCEPT ![r].pc = "failed"]
          /\ UNCHANGED <<wArrays, wCurrent>>
  /\ UNCHANGED <<wCountry, wMedia, wProcessed>>

ValidationSettles ==
  /\ \E r \in DoneIds : \E ok \in BOOLEAN : validationSettles(r, ok)
  /\ UNCHANGED <<scoreVars, questionVars, sessionVars, geminiVars>>

InitWhatsApp ==
  /\ ScoreIdle
  /\ QuestionsIdle
  /\ SessionsIdle
  /\ GeminiIdle
  /\ WhatsAppIdle

NextWhatsApp ==
  \/ HandleCountryText
  \/ HandleMediaMessage
  \/ MediaDownloaded
  \/ HandleDoneText
  \/ Validate
  \/ ProcessDocuments
  \/ ValidationSettles

SpecWhatsApp == InitWhatsApp /\ [][NextWhatsApp]_vars

\* the documents acknowledged as received
Acknowledged == { d \in DocIds : wMedia[d] = "received" }

\* a validation run is still iterating over an array that holds the document
StillToProcess(d) ==
  \E r \in DoneIds :
    /\ wRuns[r].pc = "processing"
    /\ d \in Range(wArrays[wRuns[r].array])

\* C30: a document acknowledged as received is never discarded unvalidated:
\* it is in the session's document list, or a validation run has processed
\* it or is still going through the list that holds it; and a validation
\* run is only ever started with a country and a non-empty document list.
C30_NoDocumentDiscardedUnvalidated ==
  /\ \A d \in Acknowledged :
       \/ d \in Range(wArrays[wCurrent])
       \/ d \in wProcessed
       \/ StillToProcess(d)
  /\ \A r \in DoneIds :
       wRuns[r].pc \in {"processing", "responding", "cleared", "failed"} =>
         /\ wRuns[r].startCountry # "null"
         /\ wRuns[r].startLen > 0

====
